---- MODULE Spec2Model ----
(***************************************************************************)
(* Beekeeper node server: the request loop, the per-message handlers, the  *)
(* node registry, the awaitable layer (awaitTask / awaitTransfer), Execute *)
(* and DistributeJob, and the two watchdogs.                               *)
(*                                                                         *)
(* Byte payloads are sequences of strings: <<>> is the empty payload, a    *)
(* one-element sequence is raw text, and a gob encoding is a sequence      *)
(* whose first element names the encoded type.  Errors are records with a  *)
(* kind and a text (a sequence of the parts that the format string joins). *)
(***************************************************************************)
EXTENDS Integers, Sequences, FiniteSets, TLC

\* ------------------------------------------------------------------ bounds
MaxRequests == 2
NumThreads == 2

Threads == 1..NumThreads
\* connection watchdogs belong to a thread's Execute or, as 0, to DistributeJob
Callers == 0..NumThreads
IPs == {"ip1", "ip2"}
UUIDTable == <<"1", "2", "3", "4", "5">>

\* ------------------------------------------------------- program constants
maxDisconnections == 2

\* NewDefaultConfig: c.MaxMessageSize = 1 << 9
MaxMessageSize == 2^9

OperationNone == "None"
OperationStatus == "Status"
OperationJobTransfer == "JobTransfer"
OperationTransferFailed == "JobTransferFailed"
OperationTransferAcknowledge == "JobTransferAcknowledge"
OperationJobExecute == "JobExecute"
OperationJobResult == "JobResult"

\* a value of the Operation type that is none of the constants
OperationOutOfRange == "Operation(7)"

\* the table that Operation.String indexes with the operation
OperationNames == <<OperationNone, OperationStatus, OperationJobTransfer,
                    OperationTransferFailed, OperationTransferAcknowledge,
                    OperationJobExecute, OperationJobResult>>

\* Operation.String: the index expression panics outside the table
OperationString(o) ==
    IF \E i \in 1..Len(OperationNames) : OperationNames[i] = o
    THEN [str |-> o, panic |-> FALSE]
    ELSE [str |-> "", panic |-> TRUE]

StatusIDLE == "Idle"
StatusWorking == "Working"

NilConn == "nil"

\* ------------------------------------------------------------------ errors
Nil == [kind |-> "nil", text |-> <<>>]
ErrTimeout == [kind |-> "ErrTimeout", text |-> <<"time exceeded">>]
ErrNodeDisconnected == [kind |-> "ErrNodeDisconnected", text |-> <<"node disconnected">>]
errorsNew(s) == [kind |-> "errors.New", text |-> <<s>>]
fmtErrorf(parts) == [kind |-> "fmt.Errorf", text |-> parts]

\* ---------------------------------------------------------------- payloads
EmptyResult == [UUID |-> "", Error |-> ""]

\* string(data): the text of a byte payload
StringOf(data) == IF Len(data) = 0 THEN "" ELSE data[1]

\* []byte(s)
BytesOf(s) == IF s = "" THEN <<>> ELSE <<s>>

encodeResult(res) == <<"gob:Result", res.UUID, res.Error>>

decodeResult(data) ==
    IF Len(data) = 3 /\ data[1] = "gob:Result"
    THEN [res |-> [UUID |-> data[2], Error |-> data[3]], err |-> Nil]
    ELSE [res |-> EmptyResult, err |-> errorsNew("gob: decode failed")]

encodeTask(uuid) == <<"gob:Task", uuid>>

decodeTask(data) ==
    IF Len(data) = 2 /\ data[1] = "gob:Task"
    THEN [task |-> data[2], err |-> Nil]
    ELSE [task |-> "", err |-> errorsNew("gob: decode failed")]

\* newJobUUID: the n-th identifier of the generator, formatted
FormatUint(n) == UUIDTable[n]

\* ---------------------------------------------------------------- messages
Message(op, data, token, addr, name, status) ==
    [Operation |-> op, Data |-> data, Token |-> token, Addr |-> addr,
     Name |-> name, Status |-> status]

isTokenMatching_Always(m, token2) == TRUE

isTokenMatching(m, token2) == m.Token = token2

\* Message.summary formats m.Operation.String() among the other fields
summary(m) == OperationString(m.Operation)

node(m) ==
    [Conn |-> NilConn, Addr |-> m.Addr, Name |-> m.Name, Status |-> m.Status]

VARIABLES
    Config,      \* the server's configuration (fixed after construction)
    Status,      \* Server.Status
    nodes,       \* Server.nodes, the node registry
    awaited,     \* Server.awaited, the awaitable list
    notify,      \* the delivery channel of each thread's awaitable (capacity 1)
    handlers,    \* the handleMessage goroutines spawned by the loop
    sent,        \* the frames this server has sent, in order
    jobBin,      \* contents of .beekeeper/job.bin
    flake,       \* the identifier generator's counter
    th,          \* the calling threads (awaitTask, awaitTransfer, Execute, transfer goroutines)
    wd,          \* the disconnection watchdog of each thread's awaitTransfer
    cw,          \* the connection watchdog started by each Execute / DistributeJob
    dj,          \* the DistributeJob call
    nx,          \* the Nodes.Execute call
    rd,          \* the connection readers (Server.handle), one per remote address
    bc,          \* the broadcast call and its goroutines
    sc,          \* the Scan call
    lb,          \* the LoadBalancer and its Execute calls
    reg,         \* nodesLock and the goroutines that walk the registry step by step
    srv,         \* the loop of Start and terminationChan
    inbox,       \* the frames each peer has written to its connection
    stream,      \* the bytes each peer has written to its connection, and the reader's position
    served,      \* history: the requests the loop received from the readers, in order
    dequeued,    \* number of requests the loop has dequeued
    lastToken,   \* history: the token of the request dequeued last
    merged,      \* history: the value merged last for each IP since the last clear
    deliveries,  \* history: messages sent on each delivery channel
    removals     \* history: times each awaitable left the awaitable list

vars == <<Config, Status, nodes, awaited, notify, handlers, sent, jobBin, flake,
          th, wd, cw, dj, nx, rd, bc, sc, lb, reg, srv, inbox, stream, served,
          dequeued, lastToken, merged, deliveries, removals>>

\* the calls of the node-list API, the connection readers, broadcast and Scan
calls == <<nx, rd, bc, sc>>

\* the load balancer, the registry lock, the loop's state and the sockets
more == <<lb, reg, srv, inbox, stream, served>>

NoMsg == Message("", <<>>, "", "", "", "")
NoNode == [Conn |-> NilConn, Addr |-> "", Name |-> "", Status |-> ""]

\* a request as the connection reader builds it: Addr is the remote address
\* of the connection, and the connection is named after that address
Request(m) == [Msg |-> m, Conn |-> m.Addr]

remoteAddr_Body(msg, c) == msg

\* msg.Addr = conn.RemoteAddr(): the address in the message body is overwritten
remoteAddr(msg, c) == [msg EXCEPT !.Addr = c]

\* the Request that the reader of connection c makes of a decoded message
received(msg, c) == [Msg |-> remoteAddr(msg, c), Conn |-> c]

\* ---------------------------------------------------------- node registry
RECURSIVE updateNodeFrom(_, _, _)
updateNodeFrom(ns, node2, i) ==
    IF i > Len(ns) THEN Append(ns, node2)
    ELSE IF ns[i].Addr = node2.Addr THEN [ns EXCEPT ![i] = node2]
    ELSE updateNodeFrom(ns, node2, i + 1)

updateNode_AlwaysAppend(ns, node2) == Append(ns, node2)

updateNode(ns, node2) == updateNodeFrom(ns, node2, 1)

isOnline(ns, ip) == \E i \in 1..Len(ns) : ns[i].Addr = ip

find(ns, ip) ==
    IF isOnline(ns, ip)
    THEN ns[CHOOSE i \in 1..Len(ns) :
                ns[i].Addr = ip /\ \A j \in 1..(i - 1) : ns[j].Addr # ip]
    ELSE NoNode

\* -------------------------------------------------------- awaitable layer
awaitTaskCheckFunc_AnyResult(taskId, msg) == msg.Operation = OperationJobResult

awaitTaskCheckFunc(taskId, msg) ==
    /\ msg.Operation = OperationJobResult
    /\ decodeResult(msg.Data).err = Nil
    /\ decodeResult(msg.Data).res.UUID = taskId

\* && binds tighter than ||
awaitTransferCheckFunc(ip, msg) ==
    \/ msg.Operation = OperationTransferFailed
    \/ (msg.Operation = OperationTransferAcknowledge /\ msg.Addr = ip)

awaitAnyCheckFunc(ip, msg) == msg.Addr = ip

checkFunc(a, msg) ==
    CASE a.kind = "task" -> awaitTaskCheckFunc(a.key, msg)
      [] a.kind = "transfer" -> awaitTransferCheckFunc(a.key, msg)
      [] OTHER -> awaitAnyCheckFunc(a.key, msg)

awaitable(t, kind, key) == [notify |-> t, kind |-> kind, key |-> key]

remaining_KeepAll(aw, msg) == aw

remaining_DropAll(aw, msg) == <<>>

remaining(aw, msg) == SelectSeq(aw, LAMBDA a : ~checkFunc(a, msg))

matched_All(aw, msg) == {aw[i].notify : i \in 1..Len(aw)}

matched(aw, msg) == {aw[i].notify : i \in {j \in 1..Len(aw) : checkFunc(aw[j], msg)}}

inList(aw) == {aw[i].notify : i \in 1..Len(aw)}

\* notifyChan := make(chan Message, 1)
NotifyCapacity == 1

sendBlocks_Unbuffered(ch) == TRUE

\* a send on a delivery channel blocks while the channel's buffer is full
sendBlocks(ch) == Len(ch) >= NotifyCapacity

\* checkAwaited runs under awaitedLock; a send on a full channel would block it
checkAwaited(msg) ==
    /\ \A t \in matched(awaited, msg) : ~sendBlocks(notify[t])
    /\ notify' = [t \in Threads |->
                    IF t \in matched(awaited, msg) THEN Append(notify[t], msg)
                    ELSE notify[t]]
    /\ awaited' = remaining(awaited, msg)
    /\ deliveries' = [t \in Threads |->
                        IF t \in matched(awaited, msg) THEN deliveries[t] + 1
                        ELSE deliveries[t]]
    /\ removals' = [t \in Threads |->
                      IF t \in inList(awaited) /\ t \notin inList(awaited')
                      THEN removals[t] + 1 ELSE removals[t]]

awaitLayer == <<awaited, notify, deliveries, removals>>

\* --------------------------------------------------------------- sending
\* defaultSendCallback stamps the frame before it is written
stamp(m) == [m EXCEPT !.Name = Config.Name, !.Status = Status, !.Token = Config.Token]

frame(conn, m) == [conn |-> conn, msg |-> stamp(m)]

Outbound(op, data) == Message(op, data, "", "", "", "")

\* ----------------------------------------------------------- server loop
merge(n) == [merged EXCEPT ![n.Addr] = n]

NoHandler == [pc |-> "none", msg |-> NoMsg, conn |-> NilConn, task |-> ""]
DoneHandler == [pc |-> "done", msg |-> NoMsg, conn |-> NilConn, task |-> ""]

\* one iteration of the loop of Start on a request received from the queue
\* (updateNode needs nodesLock); with Config.Debug the request's summary is logged, and a panic raised
\* there unwinds the goroutine of Start, which has no deferred recover
serve(req) ==
    /\ srv.loop = "running"
    /\ reg.lock = 0
    /\ dequeued < MaxRequests
    /\ dequeued' = dequeued + 1
    /\ lastToken' = req.Msg.Token
    /\ IF ~isTokenMatching(req.Msg, Config.Token)
       THEN UNCHANGED <<nodes, merged, handlers, srv>>
       ELSE IF Config.Debug /\ summary(req.Msg).panic
       THEN /\ srv' = [srv EXCEPT !.loop = "panicked", !.panics = @ + 1]
            /\ UNCHANGED <<nodes, merged, handlers>>
       ELSE /\ nodes' = updateNode(nodes, node(req.Msg))
            /\ merged' = merge(node(req.Msg))
            /\ handlers' = [handlers EXCEPT ![dequeued + 1] =
                              [pc |-> "callback", msg |-> req.Msg,
                               conn |-> req.Conn, task |-> ""]]
            /\ UNCHANGED srv
    /\ UNCHANGED <<Config, stream, lb, reg, inbox, Status, awaitLayer, sent, jobBin, flake, th, wd, cw, dj>>

\* the loop of Start receives a request that some reader sends on the queue
Start(req) == serve(req) /\ UNCHANGED <<calls, served>>

\* ------------------------------------------------------------- handlers
Handlers == 1..MaxRequests

atCallback(h, ops) == handlers[h].pc = "callback" /\ handlers[h].msg.Operation \in ops

goto(h, pc) == handlers' = [handlers EXCEPT ![h].pc = pc]

jobResultCallback(h) ==
    /\ atCallback(h, {OperationJobResult})
    /\ checkAwaited(handlers[h].msg)
    /\ goto(h, "update")
    /\ UNCHANGED <<Config, more, calls, Status, nodes, sent, jobBin, flake, th, wd, cw, dj,
                   dequeued, lastToken, merged>>

transferStatusCallback(h) ==
    /\ atCallback(h, {OperationTransferAcknowledge, OperationTransferFailed})
    /\ checkAwaited(handlers[h].msg)
    /\ goto(h, "update")
    /\ UNCHANGED <<Config, more, calls, Status, nodes, sent, jobBin, flake, th, wd, cw, dj,
                   dequeued, lastToken, merged>>

statusReply_Status == Outbound(OperationStatus, <<>>)

\* Message{NodeInfo: ni}: the Operation is left at its zero value
statusReply == Outbound(OperationNone, <<>>)

statusCallback(h) ==
    /\ atCallback(h, {OperationStatus})
    /\ sent' = Append(sent, frame(handlers[h].conn, statusReply))
    /\ goto(h, "update")
    /\ UNCHANGED <<Config, more, calls, Status, nodes, awaitLayer, jobBin, flake, th, wd, cw, dj,
                   dequeued, lastToken, merged>>

respondTransferError(conn, errMsg) ==
    sent' = Append(sent, frame(conn, Outbound(OperationTransferFailed, BytesOf(errMsg))))

\* what a failed io.Copy leaves of the file that saveBinary has truncated
partialWrites(data) == {SubSeq(data, 1, k) : k \in 0..(Len(data) - 1)}

\* fs: the outcome of the file system calls (createFolderIfNotExist, and in
\* saveBinary os.OpenFile with O_TRUNC, then io.Copy)
jobTransferCallback(h) ==
    /\ atCallback(h, {OperationJobTransfer})
    /\ \E fs \in {"ok", "mkdir fails", "open fails", "write fails"} :
         IF fs = "mkdir fails"
         THEN respondTransferError(handlers[h].conn, "mkdir: permission denied")
              /\ UNCHANGED jobBin
         ELSE IF Len(handlers[h].msg.Data) = 0
         THEN respondTransferError(handlers[h].conn, "empty data field")
              /\ UNCHANGED jobBin
         ELSE IF fs = "open fails"
         THEN respondTransferError(handlers[h].conn, "open: permission denied")
              /\ UNCHANGED jobBin
         ELSE IF fs = "write fails"
         THEN respondTransferError(handlers[h].conn, "write: no space left on device")
              /\ jobBin' \in partialWrites(handlers[h].msg.Data)
         ELSE /\ jobBin' = handlers[h].msg.Data
              /\ sent' = Append(sent, frame(handlers[h].conn,
                                   Outbound(OperationTransferAcknowledge, <<>>)))
    /\ goto(h, "update")
    /\ UNCHANGED <<Config, more, calls, Status, nodes, awaitLayer, flake, th, wd, cw, dj,
                   dequeued, lastToken, merged>>

\* jobExecuteCallback up to the start of the job subprocess
jobExecuteCallback(h) ==
    /\ atCallback(h, {OperationJobExecute})
    /\ IF decodeTask(handlers[h].msg.Data).err # Nil
       THEN goto(h, "update") /\ UNCHANGED Status
       ELSE /\ Status' = StatusWorking
            /\ handlers' = [handlers EXCEPT ![h].pc = "running",
                              ![h].task = decodeTask(handlers[h].msg.Data).task]
    /\ UNCHANGED <<Config, more, calls, nodes, awaitLayer, sent, jobBin, flake, th, wd, cw, dj,
                   dequeued, lastToken, merged>>

\* jobExecuteCallback from the end of runLocalJob; run: the outcome of the job
jobExecuteFinish(h) ==
    /\ handlers[h].pc = "running"
    /\ Status' = StatusIDLE
    /\ \E run \in {"ok", "job fails", "encode fails"} :
         IF run = "encode fails" THEN UNCHANGED sent
         ELSE sent' = Append(sent, [conn |-> handlers[h].conn,
                 msg |-> [Outbound(OperationJobResult,
                            encodeResult([UUID |-> handlers[h].task,
                               Error |-> IF run = "ok" THEN ""
                                         ELSE "Unable to run job: unable to start process"]))
                          EXCEPT !.Name = Config.Name, !.Status = StatusIDLE,
                                 !.Token = Config.Token]])
    /\ goto(h, "update")
    /\ UNCHANGED <<Config, more, calls, nodes, awaitLayer, jobBin, flake, th, wd, cw, dj,
                   dequeued, lastToken, merged>>

\* the operations without a case in handleMessage's switch
noCallback(h) ==
    /\ atCallback(h, {OperationNone, OperationOutOfRange})
    /\ goto(h, "update")
    /\ UNCHANGED <<Config, more, calls, Status, nodes, awaitLayer, sent, jobBin, flake, th, wd, cw, dj,
                   dequeued, lastToken, merged>>

\* handleMessage after the switch: the second merge, with the connection
handleUpdateNode(h) ==
    /\ handlers[h].pc = "update"
    /\ nodes' = updateNode(nodes, [node(handlers[h].msg) EXCEPT !.Conn = handlers[h].conn])
    /\ merged' = merge([node(handlers[h].msg) EXCEPT !.Conn = handlers[h].conn])
    /\ goto(h, "check")
    /\ UNCHANGED <<Config, more, calls, Status, awaitLayer, sent, jobBin, flake, th, wd, cw, dj,
                   dequeued, lastToken>>

\* handleMessage's final walk of the awaitable list
handleCheckAwaited(h) ==
    /\ handlers[h].pc = "check"
    /\ checkAwaited(handlers[h].msg)
    /\ handlers' = [handlers EXCEPT ![h] = DoneHandler]
    /\ UNCHANGED <<Config, more, calls, Status, nodes, sent, jobBin, flake, th, wd, cw, dj,
                   dequeued, lastToken, merged>>

\* ------------------------------------------------------- calling threads
NoThread == [op |-> "none", pc |-> "idle", uuid |-> "", ip |-> "", timeout |-> FALSE,
             msg |-> NoMsg, res |-> EmptyResult, err |-> Nil, sendErr |-> Nil, pending |-> <<>>,
             node |-> NoNode]

\* streak, signals and seen are history: the absent polls in a row, the
\* signals received from the watchdog's channel, and the number of probes that
\* had been broadcast when the watchdog polled last
NoWatchdog == [state |-> "none", disconnections |-> 0, streak |-> 0, signals |-> 0, seen |-> 0]

\* newDisconnectionWatchdog: the goroutine starts with disconnections = 0
newDisconnectionWatchdog == [NoWatchdog EXCEPT !.state = "polling"]

\* Execute's statements after awaitTask has returned (res, err)
ExecuteReturn_IgnoreError(res, err) == [res |-> res, err |-> err]

ExecuteReturn(res, err) ==
    IF err # Nil THEN [res |-> EmptyResult, err |-> err]
    ELSE IF res.Error # "" THEN [res |-> EmptyResult, err |-> errorsNew(res.Error)]
    ELSE [res |-> res, err |-> Nil]

\* the deferred send on terminateChan (capacity 1) when the caller returns
terminate(t) ==
    cw' = [cw EXCEPT ![t] = IF @.state = "none" THEN @ ELSE [@ EXCEPT !.terminate = 1]]

\* awaitTask returns (res, err) to its caller
returnFromAwaitTask(t, msg, res, err) ==
    IF th[t].op = "Execute"
    THEN /\ th' = [th EXCEPT ![t].pc = "done", ![t].msg = msg,
                             ![t].res = ExecuteReturn(res, err).res,
                             ![t].err = ExecuteReturn(res, err).err]
         /\ terminate(t)
    ELSE /\ th' = [th EXCEPT ![t].pc = "done", ![t].msg = msg,
                             ![t].res = res, ![t].err = err]
         /\ UNCHANGED cw

\* awaitTask up to the select: the awaitable is appended under awaitedLock
awaitTaskRegister(t) ==
    /\ th[t].pc = "task_reg"
    /\ awaited' = Append(awaited, awaitable(t, "task", th[t].uuid))
    /\ th' = [th EXCEPT ![t].pc = "task_wait"]
    /\ UNCHANGED <<Config, more, calls, Status, nodes, notify, handlers, sent, jobBin, flake, wd, cw, dj,
                   dequeued, lastToken, merged, deliveries, removals>>

\* a direct call of awaitTask(taskId, timeout...)
awaitTask(t, taskId, timeout) ==
    /\ th[t].pc = "idle"
    /\ awaited' = Append(awaited, awaitable(t, "task", taskId))
    /\ th' = [th EXCEPT ![t].op = "awaitTask", ![t].pc = "task_wait",
                        ![t].uuid = taskId, ![t].timeout = timeout]
    /\ UNCHANGED <<Config, more, calls, Status, nodes, notify, handlers, sent, jobBin, flake, wd, cw, dj,
                   dequeued, lastToken, merged, deliveries, removals>>

awaitTaskReceive(t) ==
    /\ th[t].pc = "task_wait"
    /\ Len(notify[t]) > 0
    /\ notify' = [notify EXCEPT ![t] = Tail(@)]
    /\ returnFromAwaitTask(t, Head(notify[t]), decodeResult(Head(notify[t]).Data).res, Nil)
    /\ UNCHANGED <<Config, more, calls, Status, nodes, awaited, handlers, sent, jobBin, flake, wd, dj,
                   dequeued, lastToken, merged, deliveries, removals>>

timerOf_Never(t) == FALSE

\* the timer of a call exists only when a timeout was passed
timerOf(t) == th[t].timeout

awaitTaskTimeout(t) ==
    /\ th[t].pc = "task_wait"
    /\ timerOf(t)
    /\ returnFromAwaitTask(t, NoMsg, EmptyResult, ErrTimeout)
    /\ UNCHANGED <<Config, more, calls, Status, nodes, awaitLayer, handlers, sent, jobBin, flake, wd, dj,
                   dequeued, lastToken, merged>>

\* awaitTransfer returns err to its caller; a transfer goroutine of DistributeJob
\* stores it in the variable err that all the goroutines share
returnFromAwaitTransfer(t, msg, err) ==
    /\ th' = [th EXCEPT ![t].pc = IF th[t].op = "awaitTransfer" THEN "done" ELSE "transfer_check",
                        ![t].msg = msg, ![t].err = err]
    /\ dj' = IF th[t].op = "awaitTransfer" THEN dj ELSE [dj EXCEPT !.err = err]

\* the error awaitTransfer makes of the message that resolved it
transferError(msg) ==
    IF msg.Operation = OperationTransferAcknowledge THEN Nil
    ELSE errorsNew(StringOf(msg.Data))

\* awaitTransfer up to the select: watchdog started, awaitable appended
awaitTransferRegister(t) ==
    /\ th[t].pc = "transfer_reg"
    /\ wd' = [wd EXCEPT ![t] = newDisconnectionWatchdog]
    /\ awaited' = Append(awaited, awaitable(t, "transfer", th[t].ip))
    /\ th' = [th EXCEPT ![t].pc = "transfer_wait"]
    /\ UNCHANGED <<Config, more, calls, Status, nodes, notify, handlers, sent, jobBin, flake, cw, dj,
                   dequeued, lastToken, merged, deliveries, removals>>

\* a direct call of awaitTransfer(n, timeout...)
awaitTransfer(t, ip, timeout) ==
    /\ th[t].pc = "idle"
    /\ wd' = [wd EXCEPT ![t] = newDisconnectionWatchdog]
    /\ awaited' = Append(awaited, awaitable(t, "transfer", ip))
    /\ th' = [th EXCEPT ![t].op = "awaitTransfer", ![t].pc = "transfer_wait",
                        ![t].ip = ip, ![t].timeout = timeout]
    /\ UNCHANGED <<Config, more, calls, Status, nodes, notify, handlers, sent, jobBin, flake, cw, dj,
                   dequeued, lastToken, merged, deliveries, removals>>

awaitTransferReceive(t) ==
    /\ th[t].pc = "transfer_wait"
    /\ Len(notify[t]) > 0
    /\ notify' = [notify EXCEPT ![t] = Tail(@)]
    /\ returnFromAwaitTransfer(t, Head(notify[t]), transferError(Head(notify[t])))
    /\ UNCHANGED <<Config, more, calls, Status, nodes, awaited, handlers, sent, jobBin, flake, wd, cw,
                   dequeued, lastToken, merged, deliveries, removals>>

awaitTransferTimeout(t) ==
    /\ th[t].pc = "transfer_wait"
    /\ timerOf(t)
    /\ returnFromAwaitTransfer(t, NoMsg, ErrTimeout)
    /\ UNCHANGED <<Config, more, calls, Status, nodes, awaitLayer, handlers, sent, jobBin, flake, wd, cw,
                   dequeued, lastToken, merged>>

\* the receive from disconnectChan, which releases the watchdog's send
awaitTransferDisconnected(t) ==
    /\ th[t].pc = "transfer_wait"
    /\ wd[t].state = "signalling"
    /\ wd' = [wd EXCEPT ![t].state = "exited", ![t].signals = @ + 1]
    /\ returnFromAwaitTransfer(t, NoMsg, ErrNodeDisconnected)
    /\ UNCHANGED <<Config, more, calls, Status, nodes, awaitLayer, handlers, sent, jobBin, flake, cw,
                   dequeued, lastToken, merged>>

\* a direct call of awaitAny(addr, timeout...); resolved: whether
\* net.ResolveIPAddr succeeds, before anything is registered
awaitAny(t, addr, timeout) ==
    /\ th[t].pc = "idle"
    /\ \E resolved \in BOOLEAN :
         IF resolved
         THEN /\ awaited' = Append(awaited, awaitable(t, "any", addr))
              /\ th' = [th EXCEPT ![t].op = "awaitAny", ![t].pc = "any_wait",
                                  ![t].ip = addr, ![t].timeout = timeout]
         ELSE /\ UNCHANGED awaited
              /\ th' = [th EXCEPT ![t].op = "awaitAny", ![t].pc = "done",
                                  ![t].ip = addr, ![t].timeout = timeout,
                                  ![t].err = errorsNew("lookup: no such host")]
    /\ UNCHANGED <<Config, more, calls, Status, nodes, notify, handlers, sent, jobBin, flake, wd, cw,
                   dj, dequeued, lastToken, merged, deliveries, removals>>

\* <-notifyChan: return s.nodes.find(resolvedAddr.IP), nil
awaitAnyReceive(t) ==
    /\ th[t].pc = "any_wait"
    /\ Len(notify[t]) > 0
    /\ notify' = [notify EXCEPT ![t] = Tail(@)]
    /\ th' = [th EXCEPT ![t].pc = "done", ![t].msg = Head(notify[t]),
                        ![t].node = find(nodes, th[t].ip)]
    /\ UNCHANGED <<Config, more, calls, Status, nodes, awaited, handlers, sent, jobBin, flake, wd, cw,
                   dj, dequeued, lastToken, merged, deliveries, removals>>

awaitAnyTimeout(t) ==
    /\ th[t].pc = "any_wait"
    /\ timerOf(t)
    /\ th' = [th EXCEPT ![t].pc = "done", ![t].err = ErrTimeout]
    /\ UNCHANGED <<Config, more, calls, Status, nodes, awaitLayer, handlers, sent, jobBin, flake, wd,
                   cw, dj, dequeued, lastToken, merged>>

\* ------------------------------------------------------------- watchdogs
disconnected_OneLate(disconnections) == disconnections > maxDisconnections

\* the disconnection watchdog's test of its counter
disconnected(disconnections) == disconnections >= maxDisconnections

counted_NoReset(disconnections, online) ==
    IF online THEN disconnections ELSE disconnections + 1

\* the watchdog's counter after a poll that found the node online or not
counted(disconnections, online) == IF online THEN 0 ELSE disconnections + 1

\* the Status probes that the connection watchdogs have broadcast
cycles == Cardinality({i \in 1..Len(sent) : sent[i].conn = "broadcast"})

\* one poll of the disconnection watchdog's loop, after its sleep; at the
\* limit the goroutine goes on to send on its unbuffered channel
disconnectionWatchdogPoll(t) ==
    /\ wd[t].state = "polling"
    /\ LET online == isOnline(nodes, th[t].ip)
           disconnections == counted(wd[t].disconnections, online)
       IN wd' = [wd EXCEPT ![t].disconnections = disconnections,
                           ![t].state = IF ~online /\ disconnected(disconnections)
                                        THEN "signalling" ELSE "polling",
                           ![t].streak = IF online THEN 0 ELSE @ + 1,
                           ![t].seen = cycles]
    /\ UNCHANGED <<Config, more, calls, Status, nodes, awaitLayer, handlers, sent, jobBin, flake, th, cw, dj,
                   dequeued, lastToken, merged>>

NoConnWatchdog == [state |-> "none", terminate |-> 0]

startConnectionWatchdog(t) ==
    cw' = [cw EXCEPT ![t] = IF Config.DisableConnectionWatchdog THEN @
                            ELSE [state |-> "select", terminate |-> 0]]

\* the select of the connection watchdog's loop
connectionWatchdogSelect(t) ==
    /\ cw[t].state = "select"
    /\ cw' = [cw EXCEPT ![t] = IF @.terminate > 0 THEN [state |-> "returned", terminate |-> 0]
                               ELSE [@ EXCEPT !.state = "sleeping"]]
    /\ UNCHANGED <<Config, more, calls, Status, nodes, awaitLayer, handlers, sent, jobBin, flake, th, wd, dj,
                   dequeued, lastToken, merged>>

\* the default branch after its sleep: clear the registry, broadcast Status
connectionWatchdogCycle(t) ==
    /\ cw[t].state = "sleeping"
    /\ nodes' = <<>>
    /\ merged' = [ip \in IPs |-> NoNode]
    /\ sent' = Append(sent, frame("broadcast", Outbound(OperationStatus, <<>>)))
    /\ cw' = [cw EXCEPT ![t].state = "select"]
    /\ UNCHANGED <<Config, more, calls, Status, awaitLayer, handlers, jobBin, flake, th, wd, dj,
                   dequeued, lastToken>>

\* ---------------------------------------------------------------- Execute
\* Execute up to the call of awaitTask; sendOK: whether s.send succeeds
Execute(t, ip, timeout) ==
    /\ th[t].pc = "idle"
    /\ flake < Len(UUIDTable)
    /\ flake' = flake + 1
    /\ \E sendOK \in BOOLEAN :
         IF sendOK
         THEN /\ sent' = Append(sent, frame(ip, Outbound(OperationJobExecute,
                                                encodeTask(FormatUint(flake')))))
              /\ th' = [th EXCEPT ![t].op = "Execute", ![t].pc = "task_reg",
                                  ![t].uuid = FormatUint(flake'), ![t].ip = ip,
                                  ![t].timeout = timeout]
              /\ startConnectionWatchdog(t)
         ELSE /\ UNCHANGED sent
              /\ th' = [th EXCEPT ![t].op = "Execute", ![t].pc = "done",
                                  ![t].uuid = FormatUint(flake'), ![t].ip = ip,
                                  ![t].timeout = timeout,
                                  ![t].err = errorsNew("dial tcp: connection refused")]
              /\ cw' = [cw EXCEPT ![t] = IF Config.DisableConnectionWatchdog THEN @
                                         ELSE [state |-> "select", terminate |-> 1]]
    /\ UNCHANGED <<Config, more, calls, Status, nodes, awaitLayer, handlers, jobBin, wd, dj,
                   dequeued, lastToken, merged>>

\* ---------------------------------------------------------- DistributeJob
TargetList == <<"ip1", "ip2">>

NoDistribute == [pc |-> "idle", nodes |-> <<>>, built |-> FALSE, err |-> Nil,
                 errChan |-> <<>>, okChan |-> 0, okays |-> 0, ret |-> Nil]

noNodes_Never(ns) == FALSE

noNodes(ns) == Len(ns) < 1

transferFailure(t, err) ==
    fmtErrorf(<<"unable to sendWithConn job to node ", th[t].ip, ": ">> \o err.text)

\* DistributeJob up to the collecting loop; build, read: the outcomes of the
\* external builder and of reading the binaries it wrote
DistributeJob(ns) ==
    /\ dj.pc = "idle"
    /\ \A t \in 1..Len(ns) : th[t].pc = "idle"
    /\ IF noNodes(ns)
       THEN /\ dj' = [dj EXCEPT !.pc = "done", !.nodes = ns,
                                !.ret = errorsNew("no nodes provided")]
            /\ UNCHANGED <<th, cw>>
       ELSE \E build \in BOOLEAN, read \in BOOLEAN :
            IF ~build
            THEN /\ dj' = [dj EXCEPT !.pc = "done", !.nodes = ns, !.built = TRUE,
                                     !.ret = errorsNew("build failed")]
                 /\ UNCHANGED <<th, cw>>
            ELSE IF ~read
            THEN /\ dj' = [dj EXCEPT !.pc = "done", !.nodes = ns, !.built = TRUE,
                                     !.ret = fmtErrorf(<<"unable to load binary for os ",
                                                         "linux", ": ", "no such file">>)]
                 /\ cw' = [cw EXCEPT ![0] = IF Config.DisableConnectionWatchdog THEN @
                                            ELSE [state |-> "select", terminate |-> 1]]
                 /\ UNCHANGED th
            ELSE /\ dj' = [dj EXCEPT !.pc = "collect", !.nodes = ns, !.built = TRUE]
                 /\ startConnectionWatchdog(0)
                 /\ th' = [t \in Threads |->
                             IF t <= Len(ns)
                             THEN [th[t] EXCEPT !.op = "transfer", !.pc = "transfer_send",
                                                !.ip = ns[t]]
                             ELSE th[t]]
    /\ UNCHANGED <<Config, more, calls, Status, nodes, awaitLayer, handlers, sent, jobBin, flake, wd,
                   dequeued, lastToken, merged>>

\* a transfer goroutine: err = s.send(node, msg); sendOK: whether s.send succeeds
transferSend(t) ==
    /\ th[t].pc = "transfer_send"
    /\ \E sendOK \in BOOLEAN :
         IF sendOK
         THEN /\ sent' = Append(sent, frame(th[t].ip, Outbound(OperationJobTransfer, <<"bin">>)))
              /\ th' = [th EXCEPT ![t].pc = "transfer_send_check"]
              /\ dj' = [dj EXCEPT !.err = Nil]
         ELSE /\ UNCHANGED sent
              /\ th' = [th EXCEPT ![t].pc = "transfer_send_check",
                                  ![t].sendErr = errorsNew("connection refused")]
              /\ dj' = [dj EXCEPT !.err = errorsNew("connection refused")]
    /\ UNCHANGED <<Config, more, calls, Status, nodes, awaitLayer, handlers, jobBin, flake, wd, cw,
                   dequeued, lastToken, merged>>

\* a transfer goroutine: if err != nil after the send; the send on errChan blocks when full
transferSendCheck(t) ==
    /\ th[t].pc = "transfer_send_check"
    /\ IF dj.err # Nil
       THEN /\ Len(dj.errChan) < Len(dj.nodes)
            /\ dj' = [dj EXCEPT !.errChan = Append(@, transferFailure(t, dj.err))]
       ELSE UNCHANGED dj
    /\ th' = [th EXCEPT ![t].pc = "transfer_reg"]
    /\ UNCHANGED <<Config, more, calls, Status, nodes, awaitLayer, handlers, sent, jobBin, flake, wd, cw,
                   dequeued, lastToken, merged>>

\* a transfer goroutine: if err != nil after awaitTransfer, reading the shared err
transferCheck(t) ==
    /\ th[t].pc = "transfer_check"
    /\ th' = [th EXCEPT ![t].pc = "transfer_report",
                ![t].pending =
                    IF dj.err = Nil THEN <<>>
                    ELSE IF dj.err = ErrNodeDisconnected
                    THEN <<transferFailure(t, [text |-> <<"node disconnected">>]),
                           transferFailure(t, dj.err)>>
                    ELSE <<transferFailure(t, dj.err)>>]
    /\ UNCHANGED <<Config, more, calls, Status, nodes, awaitLayer, handlers, sent, jobBin, flake, wd, cw, dj,
                   dequeued, lastToken, merged>>

\* a transfer goroutine: the sends on errChan, then the send on okChan
transferReport(t) ==
    /\ th[t].pc = "transfer_report"
    /\ IF Len(th[t].pending) > 0
       THEN /\ Len(dj.errChan) < Len(dj.nodes)
            /\ dj' = [dj EXCEPT !.errChan = Append(@, Head(th[t].pending))]
            /\ th' = [th EXCEPT ![t].pending = Tail(@)]
       ELSE /\ dj.okChan < Len(dj.nodes)
            /\ dj' = [dj EXCEPT !.okChan = @ + 1]
            /\ th' = [th EXCEPT ![t].pc = "done"]
    /\ UNCHANGED <<Config, more, calls, Status, nodes, awaitLayer, handlers, sent, jobBin, flake, wd, cw,
                   dequeued, lastToken, merged>>

\* the collecting select takes from okChan; after the last one: cleanup, return nil
distributeReceiveOk(c) ==
    /\ dj.pc = "collect"
    /\ dj.okChan > 0
    /\ dj' = [dj EXCEPT !.okChan = @ - 1, !.okays = @ + 1,
                        !.pc = IF dj.okays + 1 < Len(dj.nodes) THEN "collect" ELSE "done"]
    /\ IF dj.okays + 1 < Len(dj.nodes) THEN UNCHANGED cw ELSE terminate(c)
    /\ UNCHANGED <<Config, more, calls, Status, nodes, awaitLayer, handlers, sent, jobBin, flake, th, wd,
                   dequeued, lastToken, merged>>

\* the collecting select takes from errChan: return err
distributeReceiveErr(c) ==
    /\ dj.pc = "collect"
    /\ Len(dj.errChan) > 0
    /\ dj' = [dj EXCEPT !.errChan = Tail(@), !.pc = "done", !.ret = Head(dj.errChan)]
    /\ terminate(c)
    /\ UNCHANGED <<Config, more, calls, Status, nodes, awaitLayer, handlers, sent, jobBin, flake, th, wd,
                   dequeued, lastToken, merged>>

\* ----------------------------------------------------------- Nodes.Execute
NoNodesExecute == [pc |-> "idle", nodes |-> <<>>, results |-> <<>>, err |-> Nil]

collected_First(results, ns) == Len(results) >= 1

\* the negation of the collecting loop's condition
collected(results, ns) == Len(results) = Len(ns)

\* Nodes.Execute up to the collecting loop: one goroutine per node, each of
\* which calls Execute for its node (thread t for the t-th node)
NodesExecute(ns) ==
    /\ nx.pc = "idle"
    /\ \A t \in 1..Len(ns) : th[t].pc = "idle"
    /\ nx' = [nx EXCEPT !.nodes = ns,
                        !.pc = IF collected(<<>>, ns) THEN "done" ELSE "collect"]
    /\ UNCHANGED <<Config, more, rd, bc, sc, Status, nodes, awaitLayer, handlers, sent, jobBin, flake, th, wd,
                   cw, dj, dequeued, lastToken, merged>>

spawnedBy(t) == nx.pc # "idle" /\ t <= Len(nx.nodes)

\* the collecting select receives what goroutine t sends on its unbuffered
\* channel: its error on errChan or its Result on resultsChan
nodesExecuteReceive(t) ==
    /\ nx.pc = "collect"
    /\ spawnedBy(t) /\ th[t].op = "Execute" /\ th[t].pc = "done"
    /\ th' = [th EXCEPT ![t].pc = "reported"]
    /\ nx' = IF th[t].err # Nil
             THEN [nx EXCEPT !.pc = "done", !.results = <<>>,
                             !.err = fmtErrorf(<<"node ", th[t].ip, " error: ">> \o th[t].err.text)]
             ELSE [nx EXCEPT !.results = Append(@, th[t].res),
                             !.pc = IF collected(Append(nx.results, th[t].res), nx.nodes)
                                    THEN "done" ELSE "collect"]
    /\ UNCHANGED <<Config, more, rd, bc, sc, Status, nodes, awaitLayer, handlers, sent, jobBin, flake, wd,
                   cw, dj, dequeued, lastToken, merged>>

\* ------------------------------------------------------ connection reader
\* strconv.Atoi and the conversion to uint64 work on machine words; the word
\* is narrowed to IntBits bits, the arithmetic is the same
IntBits == 24

MaxInt == 2^(IntBits - 1) - 1

Digits == <<"0", "1", "2", "3", "4", "5", "6", "7", "8", "9">>

digitValue(ch) == (CHOOSE d \in 1..10 : Digits[d] = ch) - 1

isDigit(ch) == \E d \in 1..10 : Digits[d] = ch

RECURSIVE itoaNat(_)
itoaNat(n) == IF n < 10 THEN <<Digits[n + 1]>> ELSE Append(itoaNat(n \div 10), Digits[(n % 10) + 1])

\* strconv.Itoa: the decimal text of n, as a header line carries it
Itoa(n) == IF n < 0 THEN <<"-">> \o itoaNat(-n) ELSE itoaNat(n)

RECURSIVE atoiDigits(_, _)
atoiDigits(chars, acc) ==
    IF chars = <<>> THEN [value |-> acc, err |-> Nil]
    ELSE IF ~isDigit(Head(chars)) THEN [value |-> 0, err |-> errorsNew("invalid syntax")]
    ELSE IF acc * 10 + digitValue(Head(chars)) > MaxInt + 1
    THEN [value |-> 0, err |-> errorsNew("value out of range")]
    ELSE atoiDigits(Tail(chars), acc * 10 + digitValue(Head(chars)))

\* strconv.Atoi
Atoi(chars) ==
    IF chars = <<>> \/ chars = <<"-">> THEN [value |-> 0, err |-> errorsNew("invalid syntax")]
    ELSE LET neg == Head(chars) = "-"
             mag == atoiDigits(IF neg \/ Head(chars) = "+" THEN Tail(chars) ELSE chars, 0)
         IN IF mag.err # Nil THEN mag
            ELSE IF ~neg /\ mag.value > MaxInt THEN [value |-> 0, err |-> errorsNew("value out of range")]
            ELSE [value |-> IF neg THEN -mag.value ELSE mag.value, err |-> Nil]

\* uint64(dataLen)
toUnsigned(n) == n % (2^IntBits)

tooLarge_Inclusive(dataLen, max) == toUnsigned(dataLen) >= max

\* uint64(dataLen) > s.Config.MaxMessageSize
tooLarge(dataLen, max) == toUnsigned(dataLen) > max

\* on the wire: the header line, the number of payload bytes that follow
\* before the stream ends, and the Message the payload decodes to (NoMsg if none)
Wire(header, avail, msg) == [header |-> header, avail |-> avail, msg |-> msg]

NoWire == Wire(<<>>, 0, NoMsg)

NoReader == [state |-> "reading", wire |-> NoWire, read |-> 0, outcome |-> "none"]

stopReader(c, w, state, read, outcome) ==
    /\ rd' = [rd EXCEPT ![c] = [state |-> state, wire |-> w, read |-> read, outcome |-> outcome]]
    /\ UNCHANGED <<Config, more, nx, bc, sc, Status, nodes, awaitLayer, handlers, sent, jobBin, flake,
                   th, wd, cw, dj, dequeued, lastToken, merged>>

\* one iteration of the loop of handle on connection c with w next on the wire
handle(c, w) ==
    /\ rd[c].state = "reading"
    /\ ~srv.terminated
    /\ LET dataLen == Atoi(w.header) IN
       IF dataLen.err # Nil
       THEN stopReader(c, w, "closed", 0, "bad header")
       ELSE IF tooLarge(dataLen.value, Config.MaxMessageSize)
       THEN stopReader(c, w, "returned", 0, "too large")
       ELSE IF w.avail < dataLen.value
       THEN stopReader(c, w, "closed", w.avail, "short read")
       ELSE IF w.msg = NoMsg
       THEN stopReader(c, w, "closed", dataLen.value, "bad payload")
       ELSE /\ serve(received(w.msg, c))
            /\ rd' = [rd EXCEPT ![c] = [state |-> "reading", wire |-> w,
                                        read |-> dataLen.value, outcome |-> "enqueued"]]
            /\ UNCHANGED <<nx, bc, sc, served>>

\* ---------------------------------------------------------------- broadcast
\* the loop of broadcastCallback runs x from 1 to 255; the model runs it to MaxOctet
MaxOctet == 3

Octets == 1..MaxOctet

\* localNetwork + strconv.Itoa(x)
OctetAddr == <<"10.0.0.1", "10.0.0.2", "10.0.0.3", "10.0.0.4">>

NoBroadcast == [pc |-> "idle", await |-> FALSE, own |-> 0, msg |-> NoMsg, wg |-> 0,
                routine |-> [x \in Octets |-> "none"], dials |-> [x \in Octets |-> 0],
                err |-> Nil]

skipOwn_Never(myIPEnding, x) == FALSE

\* if myIPEnding == x { continue }
skipOwn(myIPEnding, x) == myIPEnding = x

\* broadcastCallback's loop: one goroutine per address, counted in the
\* WaitGroup when await is set; localIP: whether getLocalIP succeeds
spawnBroadcast(msg, await, own, pcAfter) ==
    \E localIP \in BOOLEAN :
       IF ~localIP
       THEN bc' = [bc EXCEPT !.pc = pcAfter, !.await = await, !.own = own, !.msg = msg,
                             !.err = errorsNew("no local address")]
       ELSE bc' = [bc EXCEPT !.pc = IF await THEN "waiting" ELSE pcAfter,
                             !.await = await, !.own = own, !.msg = msg,
                             !.routine = [x \in Octets |-> IF skipOwn(own, x) THEN "none"
                                                          ELSE "spawned"],
                             !.wg = IF await
                                    THEN Cardinality({x \in Octets : ~skipOwn(own, x)}) ELSE 0]

\* a direct call of broadcastMessage(msg, await) on the host with last octet own
broadcastCallback(msg, await, own) ==
    /\ bc.pc = "idle"
    /\ spawnBroadcast(msg, await, own, "done")
    /\ UNCHANGED <<Config, more, nx, rd, sc, Status, nodes, awaitLayer, handlers, sent, jobBin, flake,
                   th, wd, cw, dj, dequeued, lastToken, merged>>

finished(x) ==
    [bc EXCEPT !.routine[x] = "finished", !.wg = IF bc.await THEN @ - 1 ELSE @]

\* goroutine x: s.dial(ip, time.Second); ok: whether a peer answers
broadcastDial(x) ==
    /\ bc.routine[x] = "spawned"
    /\ \E ok \in BOOLEAN :
          bc' = [(IF ok THEN [bc EXCEPT !.routine[x] = "dialed"] ELSE finished(x))
                   EXCEPT !.dials[x] = @ + 1]
    /\ UNCHANGED <<Config, more, nx, rd, sc, Status, nodes, awaitLayer, handlers, sent, jobBin, flake,
                   th, wd, cw, dj, dequeued, lastToken, merged>>

\* goroutine x: conn.send(msg); ok: whether the write succeeds
broadcastSend(x) ==
    /\ bc.routine[x] = "dialed"
    /\ bc' = finished(x)
    /\ \E ok \in BOOLEAN :
          sent' = IF ok THEN Append(sent, frame(OctetAddr[x], bc.msg)) ELSE sent
    /\ UNCHANGED <<Config, more, nx, rd, sc, Status, nodes, awaitLayer, handlers, jobBin, flake,
                   th, wd, cw, dj, dequeued, lastToken, merged>>

\* wg.Wait() returns, and broadcastCallback returns nil
broadcastReturn ==
    /\ bc.pc = "waiting"
    /\ bc.wg = 0
    /\ bc' = [bc EXCEPT !.pc = "done"]
    /\ UNCHANGED <<Config, more, nx, rd, sc, Status, nodes, awaitLayer, handlers, sent, jobBin, flake,
                   th, wd, cw, dj, dequeued, lastToken, merged>>

\* --------------------------------------------------------------------- Scan
NoScan == [pc |-> "idle", result |-> <<>>, err |-> Nil]

snapshot_Nothing(ns) == <<>>

\* return s.nodes, nil
snapshot(ns) == ns

\* Scan up to its sleep: broadcastOperation(OperationStatus, false)
Scan(own) ==
    /\ sc.pc = "idle" /\ bc.pc = "idle"
    /\ spawnBroadcast([Outbound(OperationStatus, <<>>) EXCEPT !.Token = Config.Token],
                      FALSE, own, "done")
    /\ sc' = [sc EXCEPT !.pc = "broadcast"]
    /\ UNCHANGED <<Config, more, nx, rd, Status, nodes, awaitLayer, handlers, sent, jobBin, flake,
                   th, wd, cw, dj, dequeued, lastToken, merged>>

\* Scan after the broadcast: its error is returned, or the sleep begins
scanSleep ==
    /\ sc.pc = "broadcast"
    /\ sc' = IF bc.err # Nil THEN [sc EXCEPT !.pc = "done", !.err = bc.err]
             ELSE [sc EXCEPT !.pc = "sleeping"]
    /\ UNCHANGED <<Config, more, nx, rd, bc, Status, nodes, awaitLayer, handlers, sent, jobBin, flake,
                   th, wd, cw, dj, dequeued, lastToken, merged>>

\* Scan after time.Sleep(waitTime): the registry is read under the read lock
scanReturn ==
    /\ sc.pc = "sleeping"
    /\ sc' = [sc EXCEPT !.pc = "done", !.result = snapshot(nodes)]
    /\ UNCHANGED <<Config, more, nx, rd, bc, Status, nodes, awaitLayer, handlers, sent, jobBin, flake,
                   th, wd, cw, dj, dequeued, lastToken, merged>>

\* the frames a peer has written to its connection, and the next one to read
NoInbox == [frames |-> <<>>, next |-> 1]

written == Len(inbox["ip1"].frames) + Len(inbox["ip2"].frames)

\* a peer writes w to its end of connection c; the peers write one frame
\* more than the loop dequeues
peerWrite(c, w) ==
    /\ written <= MaxRequests
    /\ inbox' = [inbox EXCEPT ![c].frames = Append(@, w)]
    /\ UNCHANGED <<Config, stream, calls, lb, reg, srv, served, Status, nodes, awaitLayer, handlers,
                   sent, jobBin, flake, th, wd, cw, dj, dequeued, lastToken, merged>>

nextFrame_Newest(box) == box.frames[Len(box.frames)]

\* the buffered reader hands out the bytes of the stream in the order written
nextFrame(box) == box.frames[box.next]

\* handle's select: the closed terminationChan is taken, else the default
handleSelect(c) ==
    /\ rd[c].state = "reading"
    /\ rd' = [rd EXCEPT ![c] = IF srv.terminated
                               THEN [@ EXCEPT !.state = "closed", !.outcome = "terminated"]
                               ELSE [@ EXCEPT !.state = "readline"]]
    /\ UNCHANGED <<Config, nx, bc, sc, more, Status, nodes, awaitLayer, handlers,
                   sent, jobBin, flake, th, wd, cw, dj, dequeued, lastToken, merged>>

\* the default branch up to the send on the queue, for the frame w
readFrame(w, max) ==
    LET dataLen == Atoi(w.header) IN
    IF dataLen.err # Nil
    THEN [state |-> "closed", wire |-> w, read |-> 0, outcome |-> "bad header"]
    ELSE IF tooLarge(dataLen.value, max)
    THEN [state |-> "returned", wire |-> w, read |-> 0, outcome |-> "too large"]
    ELSE IF w.avail < dataLen.value
    THEN [state |-> "closed", wire |-> w, read |-> w.avail, outcome |-> "short read"]
    ELSE IF w.msg = NoMsg
    THEN [state |-> "closed", wire |-> w, read |-> dataLen.value, outcome |-> "bad payload"]
    ELSE [state |-> "sending", wire |-> w, read |-> dataLen.value, outcome |-> "none"]

\* reader.ReadLine() returns once the peer has written; it has no deadline
handleRead(c) ==
    /\ rd[c].state = "readline"
    /\ inbox[c].next <= Len(inbox[c].frames)
    /\ inbox' = [inbox EXCEPT ![c].next = @ + 1]
    /\ rd' = [rd EXCEPT ![c] = readFrame(nextFrame(inbox[c]), Config.MaxMessageSize)]
    /\ UNCHANGED <<Config, stream, nx, bc, sc, lb, reg, srv, served, Status, nodes, awaitLayer, handlers,
                   sent, jobBin, flake, th, wd, cw, dj, dequeued, lastToken, merged>>

\* s.queue <- Request{...}: the queue is unbuffered, the send completes when
\* the loop of Start receives
handleSend(c) ==
    /\ rd[c].state = "sending"
    /\ serve(received(rd[c].wire.msg, c))
    /\ served' = Append(served, received(rd[c].wire.msg, c))
    /\ rd' = [rd EXCEPT ![c].state = "reading", ![c].outcome = "enqueued"]
    /\ UNCHANGED <<nx, bc, sc>>

\* Stop: close(s.terminationChan)
Stop ==
    /\ ~srv.terminated
    /\ srv' = [srv EXCEPT !.terminated = TRUE]
    /\ UNCHANGED <<Config, stream, calls, lb, reg, inbox, served, Status, nodes, awaitLayer, handlers,
                   sent, jobBin, flake, th, wd, cw, dj, dequeued, lastToken, merged>>

\* the select of Start takes the closed terminationChan: return ErrTerminated
StartTerminated ==
    /\ srv.loop = "running" /\ srv.terminated
    /\ srv' = [srv EXCEPT !.loop = "returned"]
    /\ UNCHANGED <<Config, stream, calls, lb, reg, inbox, served, Status, nodes, awaitLayer, handlers,
                   sent, jobBin, flake, th, wd, cw, dj, dequeued, lastToken, merged>>

\* ------------------------------------------------------ frames as bytes
\* the first bytes of a gzip stream
GzipMagic == "1f8b"

\* Message.encode: the gob encoding of the fields, gzip compressed
encode(m) ==
    <<GzipMagic, "gob:Message", m.Operation, m.Token, m.Addr, m.Name, m.Status>> \o m.Data

\* decodeMessage: gzip.NewReader and gob's Decode fail on anything else
decodeMessage(data) ==
    IF Len(data) >= 7 /\ data[1] = GzipMagic /\ data[2] = "gob:Message"
    THEN [msg |-> Message(data[3], SubSeq(data, 8, Len(data)), data[4], data[5], data[6],
                          data[7]),
          err |-> Nil]
    ELSE [msg |-> NoMsg, err |-> errorsNew("gzip: invalid header")]

\* defaultSendCallback from m.encode() to c.Write: the header is the decimal
\* length of the payload and a newline
frameBytes(m) == Itoa(Len(encode(m))) \o <<"\n">> \o encode(m)

\* bytes: what the peer has written; pos: the next byte of the buffered reader;
\* msgs is history, the messages the peer has sent
NoStream == [bytes |-> <<>>, pos |-> 1, msgs |-> <<>>]

framesWritten == Len(stream["ip1"].msgs) + Len(stream["ip2"].msgs)

\* a peer sends m on its end of connection c
peerSend(c, m) ==
    /\ framesWritten < MaxRequests
    /\ stream' = [stream EXCEPT ![c].bytes = @ \o frameBytes(m), ![c].msgs = Append(@, m)]
    /\ UNCHANGED <<Config, calls, lb, reg, srv, inbox, served, Status, nodes, awaitLayer,
                   handlers, sent, jobBin, flake, th, wd, cw, dj, dequeued, lastToken, merged>>

unread(c) == SubSeq(stream[c].bytes, stream[c].pos, Len(stream[c].bytes))

\* the number of bytes before the first newline
lineLen(bytes) == (CHOOSE i \in 1..Len(bytes) :
                       bytes[i] = "\n" /\ \A j \in 1..(i - 1) : bytes[j] # "\n") - 1

hasLine(bytes) == \E i \in 1..Len(bytes) : bytes[i] = "\n"

payload_ByLine(rest, dataLen) ==
    IF hasLine(rest) THEN SubSeq(rest, 1, lineLen(rest)) ELSE rest

\* io.ReadFull(reader, dataBuf): the next dataLen bytes of the stream
payload(rest, dataLen) == SubSeq(rest, 1, dataLen)

\* what the reader finds on the stream: the line that ReadLine returns, and
\* after it the bytes that ReadFull takes and what they decode to
nextOnStream(bytes) ==
    LET header == SubSeq(bytes, 1, lineLen(bytes))
        rest == SubSeq(bytes, lineLen(bytes) + 2, Len(bytes))
        dataLen == Atoi(header)
        data == IF dataLen.err = Nil /\ dataLen.value >= 0
                THEN payload(rest, dataLen.value) ELSE <<>>
    IN  [wire |-> Wire(header, Len(data), decodeMessage(data).msg),
         taken |-> lineLen(bytes) + 1 + Len(data)]

\* the default branch of handle's select up to the send on the queue, on the
\* bytes of the stream: ReadLine waits for a newline and ReadFull for as many
\* bytes as the header declares
handleBytes(c) ==
    /\ rd[c].state = "readline"
    /\ hasLine(unread(c))
    /\ LET next == nextOnStream(unread(c))
           dataLen == Atoi(next.wire.header)
       IN /\ \/ dataLen.err # Nil
             \/ tooLarge(dataLen.value, Config.MaxMessageSize)
             \/ next.wire.avail >= dataLen.value
          /\ stream' = [stream EXCEPT ![c].pos = @ + next.taken]
          /\ rd' = [rd EXCEPT ![c] = readFrame(next.wire, Config.MaxMessageSize)]
    /\ UNCHANGED <<Config, nx, bc, sc, lb, reg, srv, inbox, served, Status, nodes, awaitLayer,
                   handlers, sent, jobBin, flake, th, wd, cw, dj, dequeued, lastToken, merged>>

\* ------------------------------------------------ the registry, step by step
\* nodesLock is free (0) or held by a handler; a handler that merges holds in
\* walk the index and the slice its range loop was started on
NoWalk == [i |-> 0, range |-> <<>>]

NoRegistryUse == [lock |-> 0, walk |-> [h \in Handlers |-> NoWalk]]

\* the node that handleMessage merges after the callback
merging(h) == [node(handlers[h].msg) EXCEPT !.Conn = handlers[h].conn]

\* updateNode: s.nodesLock.Lock(), and the range expression s.nodes is
\* evaluated once
updateNodeLock(h) ==
    /\ handlers[h].pc = "update"
    /\ reg.lock = 0
    /\ reg' = [reg EXCEPT !.lock = h, !.walk[h] = [i |-> 1, range |-> nodes]]
    /\ goto(h, "merging")
    /\ UNCHANGED <<Config, stream, calls, lb, srv, inbox, served, Status, nodes, awaitLayer,
                   sent, jobBin, flake, th, wd, cw, dj, dequeued, lastToken, merged>>

unlocked(h) == [reg EXCEPT !.lock = 0, !.walk[h] = NoWalk]

\* updateNode: one iteration of the loop, or the append after it; the
\* assignment s.nodes[i] = node2 and the append use s.nodes as it is then,
\* and an index beyond it panics (the deferred Unlock runs, nothing recovers)
updateNodeStep(h) ==
    /\ handlers[h].pc = "merging"
    /\ LET w == reg.walk[h] IN
       IF w.i > Len(w.range)
       THEN /\ nodes' = Append(nodes, merging(h))
            /\ merged' = merge(merging(h))
            /\ reg' = unlocked(h)
            /\ goto(h, "check")
            /\ UNCHANGED srv
       ELSE IF w.range[w.i].Addr # merging(h).Addr
       THEN /\ reg' = [reg EXCEPT !.walk[h].i = @ + 1]
            /\ UNCHANGED <<nodes, merged, handlers, srv>>
       ELSE IF w.i > Len(nodes)
       THEN /\ srv' = [srv EXCEPT !.loop = "panicked", !.panics = @ + 1]
            /\ reg' = unlocked(h)
            /\ UNCHANGED <<nodes, merged, handlers>>
       ELSE /\ nodes' = [nodes EXCEPT ![w.i] = merging(h)]
            /\ merged' = merge(merging(h))
            /\ reg' = unlocked(h)
            /\ goto(h, "check")
            /\ UNCHANGED srv
    /\ UNCHANGED <<Config, stream, calls, lb, inbox, served, Status, awaitLayer,
                   sent, jobBin, flake, th, wd, cw, dj, dequeued, lastToken>>


\* ------------------------------------------------------------ LoadBalancer
\* time.Second.Milliseconds(), the time a new record starts with
SecondMilliseconds == 1000

\* time.Hour.Milliseconds(), the best time a new LoadBalancer starts with
HourMilliseconds == 3600000

\* var lowest = 999999
LowestStart == 999999

\* math.Exp(x) is 0 for x below about -745.13
ExpUnderflow == 745

\* time.Since(start).Milliseconds() of the calls of the model
Elapsed == {0, 1}

NoLBCall == [pc |-> "idle", use |-> 0, time |-> 0, faster |-> FALSE]

NoLoadBalancer == [pc |-> "none", records |-> <<>>, best |-> 0, locked |-> FALSE,
                   call |-> [t \in Threads |-> NoLBCall]]

RECURSIVE getLowestLoadFrom(_, _, _, _)
getLowestLoadFrom(rs, i, lowest, records) ==
    IF i > Len(rs) THEN records
    ELSE IF rs[i].load <= lowest
    THEN getLowestLoadFrom(rs, i + 1, rs[i].load, Append(records, rs[i]))
    ELSE getLowestLoadFrom(rs, i + 1, lowest, records)

\* nodeRecords.getLowestLoad: the loop keeps every record that is not above
\* the lowest load seen before it
getLowestLoad(rs) == getLowestLoadFrom(rs, 1, LowestStart, <<>>)

Max(S) == CHOOSE x \in S : \A y \in S : y <= x

\* nodeRecords.softmax: rs[0] panics on an empty slice and the integer
\* division time/best panics when best is 0; of each probability the model
\* keeps whether it is positive (1) or has underflowed to 0
softmax(rs, best) ==
    IF Len(rs) = 0 \/ best = 0 THEN [dist |-> <<>>, panic |-> TRUE]
    ELSE LET max == Max({rs[i].time \div best : i \in 1..Len(rs)})
         IN [dist |-> [i \in 1..Len(rs) |->
                         IF max - (rs[i].time \div best) > ExpUnderflow THEN 0 ELSE 1],
             panic |-> FALSE]

\* LoadBalancer.pick: the indexes i at which the loop can return
\* lb.records[i], those whose probability can exceed rand.Float64()
pick(records, best) ==
    LET dist == softmax(getLowestLoad(records), best).dist
    IN {i \in 1..Len(dist) : dist[i] > 0}

release_Keep(load) == load

\* the deferred use.record.load -= 1
release(load) == load - 1

NewLoadBalancer(ns) ==
    /\ lb.pc = "none"
    /\ lb' = [lb EXCEPT !.pc = "ready", !.best = HourMilliseconds,
                        !.records = [i \in 1..Len(ns) |->
                                       [node |-> ns[i], load |-> 0, time |-> SecondMilliseconds]]]
    /\ UNCHANGED <<Config, stream, calls, reg, srv, inbox, served, Status, nodes, awaitLayer, handlers,
                   sent, jobBin, flake, th, wd, cw, dj, dequeued, lastToken, merged>>

\* LoadBalancer.Execute from lb.lock.Lock() to lb.lock.Unlock(): a panic in
\* pick leaves the lock held
LoadBalancerPick(t) ==
    /\ lb.pc = "ready" /\ ~lb.locked
    /\ lb.call[t].pc = "idle"
    /\ IF softmax(getLowestLoad(lb.records), lb.best).panic
       THEN lb' = [lb EXCEPT !.locked = TRUE, !.call[t].pc = "panicked"]
       ELSE \E use \in pick(lb.records, lb.best) :
               lb' = [lb EXCEPT !.records[use].load = @ + 1,
                                !.call[t].pc = "executing", !.call[t].use = use]
    /\ UNCHANGED <<Config, stream, calls, reg, srv, inbox, served, Status, nodes, awaitLayer, handlers,
                   sent, jobBin, flake, th, wd, cw, dj, dequeued, lastToken, merged>>

\* the node that call t hands to lb.server.Execute
using(t) == lb.records[lb.call[t].use].node

\* lb.server.Execute has returned: with an error the call returns it, else
\* use.record.time is written and compared with lb.best (without the lock)
LoadBalancerExecuted(t) ==
    /\ lb.call[t].pc = "executing"
    /\ th[t].op = "Execute" /\ th[t].pc = "done"
    /\ IF th[t].err # Nil
       THEN lb' = [lb EXCEPT !.call[t].pc = "returning"]
       ELSE \E ms \in Elapsed :
               lb' = [lb EXCEPT !.records[lb.call[t].use].time = ms,
                                !.call[t].pc = "timed", !.call[t].time = ms,
                                !.call[t].faster = ms < lb.best]
    /\ UNCHANGED <<Config, stream, calls, reg, srv, inbox, served, Status, nodes, awaitLayer, handlers,
                   sent, jobBin, flake, th, wd, cw, dj, dequeued, lastToken, merged>>

\* lb.best = use.record.time, when the comparison found it lower
LoadBalancerBest(t) ==
    /\ lb.call[t].pc = "timed"
    /\ lb' = [lb EXCEPT !.best = IF lb.call[t].faster THEN lb.call[t].time ELSE @,
                        !.call[t].pc = "returning"]
    /\ UNCHANGED <<Config, stream, calls, reg, srv, inbox, served, Status, nodes, awaitLayer, handlers,
                   sent, jobBin, flake, th, wd, cw, dj, dequeued, lastToken, merged>>

\* the deferred function: the load is given back under the lock
LoadBalancerReturn(t) ==
    /\ lb.call[t].pc = "returning" /\ ~lb.locked
    /\ lb' = [lb EXCEPT !.records[lb.call[t].use].load = release(@),
                        !.call[t].pc = "done"]
    /\ UNCHANGED <<Config, stream, calls, reg, srv, inbox, served, Status, nodes, awaitLayer, handlers,
                   sent, jobBin, flake, th, wd, cw, dj, dequeued, lastToken, merged>>

\* ------------------------------------------------------------------ Init
InitWith(config) ==
    /\ Config = config
    /\ Status = StatusIDLE
    /\ nodes = <<>>
    /\ awaited = <<>>
    /\ notify = [t \in Threads |-> <<>>]
    /\ handlers = [h \in Handlers |-> NoHandler]
    /\ sent = <<>>
    /\ jobBin = <<>>
    /\ flake = 0
    /\ th = [t \in Threads |-> NoThread]
    /\ wd = [t \in Threads |-> NoWatchdog]
    /\ cw = [t \in Callers |-> NoConnWatchdog]
    /\ nx = NoNodesExecute
    /\ rd = [c \in IPs |-> NoReader]
    /\ bc = NoBroadcast
    /\ sc = NoScan
    /\ dj = NoDistribute
    /\ lb = NoLoadBalancer
    /\ reg = NoRegistryUse
    /\ srv = [loop |-> "running", terminated |-> FALSE, panics |-> 0]
    /\ inbox = [c \in IPs |-> NoInbox]
    /\ stream = [c \in IPs |-> NoStream]
    /\ served = <<>>
    /\ dequeued = 0
    /\ lastToken = ""
    /\ merged = [ip \in IPs |-> NoNode]
    /\ deliveries = [t \in Threads |-> 0]
    /\ removals = [t \in Threads |-> 0]

NewConfig(token, disableWatchdog) ==
    [Name |-> "primary", Token |-> token, DisableConnectionWatchdog |-> disableWatchdog,
     MaxMessageSize |-> MaxMessageSize, Debug |-> FALSE]

\* ------------------------------------------- the server loop and handlers
\* frames a worker receives, and status carriers, with the configured token
WorkerFrames ==
    {Message(OperationNone, <<>>, "T", ip, "w", StatusIDLE) : ip \in IPs}
    \cup {Message(OperationStatus, <<>>, "T", ip, "p", StatusWorking) : ip \in IPs}
    \cup {Message(OperationJobTransfer, d, "T", "ip1", "p", StatusIDLE) : d \in {<<>>, <<"bin">>}}
    \cup {Message(OperationJobExecute, d, "T", "ip1", "p", StatusIDLE) :
             d \in {encodeTask("1"), <<"junk">>}}

\* frames that carry another token than the configured one
MismatchedFrames ==
    {Message(op, <<"bin">>, tok, "ip2", "x", StatusWorking) :
        op \in {OperationStatus, OperationJobTransfer}, tok \in {"bad", ""}}

Init == InitWith(NewConfig("T", TRUE))

Next ==
    \/ \E m \in WorkerFrames \cup MismatchedFrames : Start(Request(m))
    \/ \E h \in Handlers : statusCallback(h)
    \/ \E h \in Handlers : jobTransferCallback(h)
    \/ \E h \in Handlers : jobExecuteCallback(h)
    \/ \E h \in Handlers : jobExecuteFinish(h)
    \/ \E h \in Handlers : noCallback(h)
    \/ \E h \in Handlers : handleUpdateNode(h)
    \/ \E h \in Handlers : handleCheckAwaited(h)

Spec == Init /\ [][Next]_vars

\* C1: a dequeued request whose token differs from the configured token is
\* dropped before dispatch: registry, awaitable list, delivery channels and
\* status are unchanged, no handler is spawned and no frame is sent.
MismatchedTokenDropped ==
    [][(dequeued' = dequeued + 1 /\ lastToken' # Config.Token)
         => UNCHANGED <<nodes, awaited, notify, Status, handlers, sent, jobBin>>]_vars

MismatchedTokenSeen ==
    /\ dequeued > 1
    /\ lastToken # Config.Token
    /\ Len(nodes) > 0

\* C2: the registry holds exactly one entry per merged IP, and it equals the
\* value of the most recent merge for that IP.
RegistryOneEntryPerIP ==
    /\ \A i, j \in 1..Len(nodes) : nodes[i].Addr = nodes[j].Addr => i = j
    /\ \A ip \in IPs :
         IF merged[ip] = NoNode THEN ~isOnline(nodes, ip)
         ELSE \E i \in 1..Len(nodes) : nodes[i] = merged[ip]

RegistryRemerged ==
    /\ Len(nodes) = 2
    /\ \E i \in 1..Len(nodes) : nodes[i].Conn # NilConn

\* ------------------------------------- the awaitable layer, called directly
NoFurtherExplanation == "no further explanation received"

\* frames a primary receives from its workers
TransferFrames ==
    {Message(OperationTransferFailed, d, "T", ip, "w", StatusIDLE) :
        ip \in IPs, d \in {<<>>, <<"empty data field">>}}
    \cup {Message(OperationTransferAcknowledge, <<>>, "T", ip, "w", StatusIDLE) : ip \in IPs}

ResultFrames ==
    {Message(OperationJobResult, encodeResult([UUID |-> u, Error |-> ""]), "T", "ip1", "w",
             StatusIDLE) : u \in {"1", "2"}}
    \cup {Message(OperationJobResult, <<"junk">>, "T", "ip1", "w", StatusIDLE)}

\* a thread starts its call after the threads before it (they are interchangeable);
\* the calls pass a timeout: a call without one behaves as a call whose timer
\* never fires, which is one of the behaviours of a call with a timeout
inTurn(t) == IF t = 1 THEN TRUE ELSE th[t - 1].pc # "idle"

InitAwaitTask == InitWith(NewConfig("T", TRUE))

NextAwaitTask ==
    \/ \E m \in ResultFrames : Start(Request(m))
    \/ \E h \in Handlers : jobResultCallback(h)
    \/ \E h \in Handlers : handleUpdateNode(h)
    \/ \E h \in Handlers : handleCheckAwaited(h)
    \/ \E t \in Threads, u \in {"1", "2"} : inTurn(t) /\ awaitTask(t, u, TRUE)
    \/ \E t \in Threads : awaitTaskReceive(t)
    \/ \E t \in Threads : awaitTaskTimeout(t)

SpecAwaitTask == InitAwaitTask /\ [][NextAwaitTask]_vars

InitAwaitTransfer == InitWith(NewConfig("T", TRUE))

NextAwaitTransfer ==
    \/ \E m \in TransferFrames : Start(Request(m))
    \/ \E h \in Handlers : transferStatusCallback(h)
    \/ \E h \in Handlers : handleUpdateNode(h)
    \/ \E h \in Handlers : handleCheckAwaited(h)
    \/ \E t \in Threads, ip \in IPs : inTurn(t) /\ awaitTransfer(t, ip, TRUE)
    \/ \E t \in Threads : awaitTransferReceive(t)
    \/ \E t \in Threads : awaitTransferTimeout(t)
    \/ \E t \in Threads : awaitTransferDisconnected(t)
    \/ \E t \in Threads : disconnectionWatchdogPoll(t)

SpecAwaitTransfer == InitAwaitTransfer /\ [][NextAwaitTransfer]_vars

TransferThreads == {t \in Threads : th[t].op \in {"awaitTransfer", "transfer"}}

\* the messages delivered so far to thread t's awaitable
deliveredTo(t) ==
    {notify[t][i] : i \in 1..Len(notify[t])}
    \cup (IF th[t].msg = NoMsg THEN {} ELSE {th[t].msg})

\* C3: an awaitTransfer(node) waiter is resolved only by a TransferFailed or
\* TransferAcknowledge message whose sender IP is the node's IP.
TransferResolvedOnlyBySender ==
    \A t \in TransferThreads : \A m \in deliveredTo(t) :
        /\ m.Operation \in {OperationTransferFailed, OperationTransferAcknowledge}
        /\ m.Addr = th[t].ip

\* C4: an awaitTask(uuid) that returns without error returns a Result whose
\* UUID is uuid.
AwaitTaskReturnsOwnUUID ==
    \A t \in Threads :
        (th[t].op = "awaitTask" /\ th[t].pc = "done" /\ th[t].err = Nil)
            => th[t].res.UUID = th[t].uuid

AwaitTaskReturnedAmongOthers ==
    \E t \in Threads :
        /\ th[t].op = "awaitTask" /\ th[t].pc = "done" /\ th[t].err = Nil
        /\ th[t].res.UUID = th[t].uuid
        /\ \E t2 \in Threads :
              /\ th[t2].op = "awaitTask" /\ th[t2].pc = "done" /\ th[t2].err = Nil
              /\ th[t2].uuid # th[t].uuid

\* C5: over its lifetime an awaitable is sent at most one message and leaves
\* the awaitable list at most once.
AwaitableFulfilledOnce ==
    \A t \in Threads : deliveries[t] <= 1 /\ removals[t] <= 1

AwaitableFulfilledAndWalkedTwice ==
    \E t \in Threads :
        /\ deliveries[t] = 1 /\ removals[t] = 1
        /\ th[t].pc = "done" /\ th[t].msg # NoMsg
        /\ dequeued > 0
        /\ \A h \in Handlers : handlers[h].pc \in {"none", "done"}

\* C10: awaitTransfer returns nil for TransferAcknowledge, and for
\* TransferFailed an error whose text is the worker's text, or the sentinel
\* when the worker supplied none.
TransferErrorTextOrSentinel ==
    \A t \in Threads :
        (th[t].op = "awaitTransfer" /\ th[t].pc = "done" /\ th[t].msg # NoMsg) =>
            IF th[t].msg.Operation = OperationTransferAcknowledge
            THEN th[t].err = Nil
            ELSE /\ th[t].err # Nil
                 /\ th[t].err.text =
                      <<IF StringOf(th[t].msg.Data) = "" THEN NoFurtherExplanation
                        ELSE StringOf(th[t].msg.Data)>>

\* ------------------------------------------------------ Execute and awaitTask
\* the results workers send back for the identifiers Execute hands out
WorkerResultFrames ==
    {Message(OperationJobResult, encodeResult([UUID |-> u, Error |-> e]), "T", ip, "w",
             StatusIDLE) : u \in {FormatUint(1), FormatUint(2)}, e \in {"", "boom"},
                           ip \in {"ip1"}}

InitExecute == InitWith(NewConfig("T", TRUE))

NextExecute ==
    \/ \E m \in WorkerResultFrames : Start(Request(m))
    \/ \E h \in Handlers : jobResultCallback(h)
    \/ \E h \in Handlers : handleUpdateNode(h)
    \/ \E h \in Handlers : handleCheckAwaited(h)
    \/ \E t \in Threads : inTurn(t) /\ Execute(t, "ip1", TRUE)
    \/ \E t \in Threads : awaitTaskRegister(t)
    \/ \E t \in Threads : awaitTaskReceive(t)
    \/ \E t \in Threads : awaitTaskTimeout(t)

SpecExecute == InitExecute /\ [][NextExecute]_vars

\* ------------------------------------------- waiting with and without timeout
\* thread 1 calls Execute and the other threads call awaitTask directly, each
\* with or without a timeout; the results that arrive are for either of them
TimeoutFrames ==
    {Message(OperationJobResult, encodeResult([UUID |-> u, Error |-> ""]), "T", "ip1", "w",
             StatusIDLE) : u \in {"1", "2"}}

InitTimeout == InitWith(NewConfig("T", TRUE))

NextTimeout ==
    \/ \E m \in TimeoutFrames : Start(Request(m))
    \/ \E h \in Handlers : jobResultCallback(h)
    \/ \E h \in Handlers : handleUpdateNode(h)
    \/ \E h \in Handlers : handleCheckAwaited(h)
    \/ \E to \in BOOLEAN : Execute(1, "ip1", to)
    \/ \E t \in Threads \ {1}, to \in BOOLEAN : inTurn(t) /\ awaitTask(t, "2", to)
    \/ \E t \in Threads : awaitTaskRegister(t)
    \/ \E t \in Threads : awaitTaskReceive(t)
    \/ \E t \in Threads : awaitTaskTimeout(t)

\* a timer that was started fires unless the call has returned before
SpecTimeout ==
    InitTimeout /\ [][NextTimeout]_vars /\ \A t \in Threads : WF_vars(awaitTaskTimeout(t))

\* C6: an awaitTask with a timeout (so an Execute with a timeout) eventually
\* returns, and returns ErrTimeout when no result was delivered to it.
AwaitTaskWithTimeoutReturns ==
    \A t \in Threads :
        [](  (th[t].pc = "task_wait" /\ th[t].timeout)
          => <>(th[t].pc = "done" /\ (deliveries[t] = 0 => th[t].err = ErrTimeout)))

AwaitTaskAndExecuteTimedOut ==
    \A t \in {1, 2} :
        /\ th[t].op = (IF t = 1 THEN "Execute" ELSE "awaitTask")
        /\ th[t].pc = "done" /\ th[t].timeout
        /\ th[t].err = ErrTimeout /\ deliveries[t] = 0

\* C7: Execute returns an error and an empty Result when the worker's Result
\* carries an error text, and otherwise the worker's Result, whose UUID is
\* the fresh UUID sent in the JobExecute frame.
ExecuteReturnsWorkerResult ==
    \A t \in Threads :
        (th[t].op = "Execute" /\ th[t].pc = "done" /\ th[t].msg # NoMsg) =>
            LET worker == decodeResult(th[t].msg.Data).res IN
            IF worker.Error # ""
            THEN th[t].err = errorsNew(worker.Error) /\ th[t].res = EmptyResult
            ELSE /\ th[t].err = Nil
                 /\ th[t].res = worker
                 /\ th[t].res.UUID = th[t].uuid
                 /\ \E i \in 1..Len(sent) :
                       /\ sent[i].msg.Operation = OperationJobExecute
                       /\ decodeTask(sent[i].msg.Data).task = th[t].uuid
                 /\ \A t2 \in Threads \ {t} : th[t2].uuid # th[t].uuid

ExecuteReturnedErrorAndResult ==
    \E t \in Threads :
        /\ th[t].op = "Execute" /\ th[t].pc = "done" /\ th[t].msg # NoMsg
        /\ decodeResult(th[t].msg.Data).res.Error # ""
        /\ th[t].err # Nil

\* ------------------------------------------------- DistributeJob and workers
DistributeFrames ==
    {Message(OperationTransferAcknowledge, <<>>, "T", ip, "w", StatusIDLE) : ip \in IPs}
    \cup {Message(OperationTransferFailed, <<"empty data field">>, "T", "ip1", "w", StatusIDLE)}

\* a worker sends one TransferAcknowledge or TransferFailed in reply to a JobTransfer frame
transferRequested(ip) ==
    /\ \E i \in 1..Len(sent) : sent[i].conn = ip /\ sent[i].msg.Operation = OperationJobTransfer
    /\ merged[ip] = NoNode

InitDistribute == InitWith(NewConfig("T", TRUE))

NextDistribute ==
    \/ \E k \in 0..Len(TargetList) : k <= NumThreads /\ DistributeJob(SubSeq(TargetList, 1, k))
    \/ \E t \in Threads : transferSend(t)
    \/ \E t \in Threads : transferSendCheck(t)
    \/ \E t \in Threads : awaitTransferRegister(t)
    \/ \E t \in Threads : awaitTransferReceive(t)
    \/ \E t \in Threads : awaitTransferDisconnected(t)
    \/ \E t \in Threads : disconnectionWatchdogPoll(t)
    \/ \E t \in Threads : transferCheck(t)
    \/ \E t \in Threads : transferReport(t)
    \/ distributeReceiveOk(0)
    \/ distributeReceiveErr(0)
    \/ \E m \in DistributeFrames : transferRequested(m.Addr) /\ Start(Request(m))
    \/ \E h \in Handlers : transferStatusCallback(h)
    \/ \E h \in Handlers : handleUpdateNode(h)
    \/ \E h \in Handlers : handleCheckAwaited(h)

SpecDistribute == InitDistribute /\ [][NextDistribute]_vars

\* C8: DistributeJob returns nil only if every target node replied
\* TransferAcknowledge (its frame was sent and its wait was resolved by it).
DistributeNilOnlyIfAllAcknowledged ==
    (dj.pc = "done" /\ dj.ret = Nil) =>
        \A t \in 1..Len(dj.nodes) :
            /\ th[t].sendErr = Nil
            /\ th[t].msg.Operation = OperationTransferAcknowledge

\* C9: DistributeJob with an empty node list returns an error at once: the
\* builder is not invoked, no watchdog is started, no frame is sent, no
\* awaitable is registered and no transfer goroutine is spawned.
DistributeNoNodesFailsFast ==
    [][(dj.pc = "idle" /\ dj'.pc # "idle" /\ Len(dj'.nodes) = 0)
         => /\ dj'.pc = "done" /\ dj'.ret = errorsNew("no nodes provided")
            /\ ~dj'.built
            /\ UNCHANGED <<sent, awaited, notify, cw, wd, th, nodes>>]_vars

DistributeNoNodesReturned ==
    dj.pc = "done" /\ Len(dj.nodes) = 0 /\ dj.ret # Nil

\* ------------------------------------------- awaitTransfer and disconnection
\* thread 1 calls Execute, whose connection watchdog clears the registry; the
\* other threads call awaitTransfer(node) for ip1, which sends TransferAcknowledge
\* frames (one that arrives before the call only registers the node)
MaxCycles == 1

DisconnectFrames ==
    {Message(OperationTransferAcknowledge, <<>>, "T", "ip1", "w", StatusIDLE)}

InitDisconnect == InitWith(NewConfig("T", FALSE))

NextDisconnect ==
    \/ \E m \in DisconnectFrames : Start(Request(m))
    \/ \E h \in Handlers : transferStatusCallback(h)
    \/ \E h \in Handlers : handleUpdateNode(h)
    \/ \E h \in Handlers : handleCheckAwaited(h)
    \/ Execute(1, "ip2", TRUE)
    \/ connectionWatchdogSelect(1)
    \/ cycles < MaxCycles /\ connectionWatchdogCycle(1)
    \/ \E t \in Threads \ {1} : inTurn(t) /\ awaitTransfer(t, "ip1", FALSE)
    \/ \E t \in Threads : awaitTransferReceive(t)
    \/ \E t \in Threads : awaitTransferDisconnected(t)
    \/ \E t \in Threads : disconnectionWatchdogPoll(t)

\* a select with a ready case takes one
SpecDisconnect ==
    InitDisconnect /\ [][NextDisconnect]_vars
        /\ \A t \in Threads : WF_vars(awaitTransferDisconnected(t))

\* C11: once the node of a waiting awaitTransfer(node) was absent from the
\* registry at maxDisconnections consecutive polls of its watchdog, the call
\* returns, and returns ErrNodeDisconnected when no message was delivered to it.
AwaitTransferReturnsDisconnected ==
    \A t \in Threads :
        [](  (th[t].pc = "transfer_wait" /\ wd[t].disconnections >= maxDisconnections)
          => <>(th[t].pc = "done" /\ (deliveries[t] = 0 => th[t].err = ErrNodeDisconnected)))

AwaitTransferDisconnectedAfterClear ==
    \E t \in Threads :
        /\ th[t].op = "awaitTransfer" /\ th[t].pc = "done"
        /\ th[t].err = ErrNodeDisconnected /\ deliveries[t] = 0
        /\ cycles > 0 /\ dequeued > 0

\* the step of handler h through the callback of a frame with operation op
handled(h, op) ==
    /\ handlers[h].pc = "callback" /\ handlers[h].msg.Operation = op
    /\ handlers'[h].pc # "callback"

lastSent == sent'[Len(sent')]

\* C12: handling a JobTransfer frame sends exactly one reply on the frame's
\* connection: TransferAcknowledge if the payload is non-empty and is now the
\* content of job.bin, otherwise TransferFailed with the error text ("empty
\* data field" for an empty payload when the folder exists), job.bin unchanged.
TransferRepliedOnceAndAtomically ==
    [][\A h \in Handlers : handled(h, OperationJobTransfer) =>
          /\ Len(sent') = Len(sent) + 1
          /\ lastSent.conn = handlers[h].conn
          /\ IF lastSent.msg.Operation = OperationTransferAcknowledge
             THEN handlers[h].msg.Data # <<>> /\ jobBin' = handlers[h].msg.Data
             ELSE /\ lastSent.msg.Operation = OperationTransferFailed
                  /\ lastSent.msg.Data # <<>>
                  /\ handlers[h].msg.Data = <<>> =>
                        lastSent.msg.Data \in {BytesOf("empty data field"),
                                               BytesOf("mkdir: permission denied")}
                  /\ jobBin' = jobBin]_vars

\* C13: the handling of a JobExecute frame ends with exactly one JobResult
\* frame sent on the frame's connection, also when a worker-side step fails,
\* and the UUID of the Result is the UUID of the task when it could be decoded.
ExecuteRepliedOnce ==
    [][\A h \in Handlers :
          (/\ handlers[h].msg.Operation = OperationJobExecute
           /\ handlers[h].pc \in {"callback", "running"}
           /\ handlers'[h].pc = "update") =>
              /\ Len(sent') = Len(sent) + 1
              /\ lastSent.conn = handlers[h].conn
              /\ lastSent.msg.Operation = OperationJobResult
              /\ decodeResult(lastSent.msg.Data).err = Nil
              /\ handlers[h].pc = "running" =>
                    decodeResult(lastSent.msg.Data).res.UUID = handlers[h].task]_vars

\* ------------------------------------------------- Nodes.Execute and workers
InitNodesExecute == InitWith(NewConfig("T", TRUE))

NextNodesExecute ==
    \/ \E k \in 0..Len(TargetList) : k <= NumThreads /\ NodesExecute(SubSeq(TargetList, 1, k))
    \/ \E t \in Threads : spawnedBy(t) /\ Execute(t, nx.nodes[t], TRUE)
    \/ \E t \in Threads : awaitTaskRegister(t)
    \/ \E t \in Threads : awaitTaskReceive(t)
    \/ \E t \in Threads : awaitTaskTimeout(t)
    \/ \E t \in Threads : nodesExecuteReceive(t)
    \/ \E m \in WorkerResultFrames : Start(Request(m))
    \/ \E h \in Handlers : jobResultCallback(h)
    \/ \E h \in Handlers : handleUpdateNode(h)
    \/ \E h \in Handlers : handleCheckAwaited(h)

SpecNodesExecute == InitNodesExecute /\ [][NextNodesExecute]_vars

\* C14: when Nodes.Execute has returned without error, every node's Execute
\* was resolved by a delivered result and returned without error, the results
\* are those n Results, one per node, under pairwise distinct UUIDs; when it
\* has returned an error, it is the error of a node's Execute and there are
\* no results.
NodesExecuteReturnsAllOrError ==
    nx.pc = "done" =>
        IF nx.err = Nil
        THEN /\ Len(nx.results) = Len(nx.nodes)
             /\ \A t \in 1..Len(nx.nodes) :
                   /\ th[t].pc = "reported" /\ th[t].err = Nil /\ th[t].msg # NoMsg
                   /\ th[t].ip = nx.nodes[t]
                   /\ \E i \in 1..Len(nx.results) :
                         nx.results[i] = th[t].res /\ nx.results[i].UUID = th[t].uuid
                   /\ \A t2 \in 1..Len(nx.nodes) : t2 # t => th[t2].uuid # th[t].uuid
        ELSE /\ nx.results = <<>>
             /\ \E t \in 1..Len(nx.nodes) :
                   /\ th[t].pc = "reported" /\ th[t].err # Nil
                   /\ nx.err = fmtErrorf(<<"node ", th[t].ip, " error: ">> \o th[t].err.text)

NodesExecuteReturnedTwoResults ==
    nx.pc = "done" /\ nx.err = Nil /\ Len(nx.results) = 2

\* ------------------------------------------------------- status exchanges
\* Status requests, their None replies and the frames answered to the primary
StatusFrames ==
    {Message(op, <<>>, "T", ip, "n", StatusIDLE) :
        op \in {OperationStatus, OperationNone, OperationTransferAcknowledge,
                OperationTransferFailed},
        ip \in IPs}
    \cup {Message(OperationJobResult, encodeResult([UUID |-> "1", Error |-> ""]), "T", "ip1",
                  "n", StatusIDLE)}

InitStatus == InitWith(NewConfig("T", TRUE))

NextStatus ==
    \/ \E m \in StatusFrames : Start(Request(m))
    \/ \E h \in Handlers : statusCallback(h)
    \/ \E h \in Handlers : noCallback(h)
    \/ \E h \in Handlers : jobResultCallback(h)
    \/ \E h \in Handlers : transferStatusCallback(h)
    \/ \E h \in Handlers : handleUpdateNode(h)
    \/ \E h \in Handlers : handleCheckAwaited(h)

SpecStatus == InitStatus /\ [][NextStatus]_vars

\* C15: the handling of a Status frame sends exactly one frame, a None reply
\* on the connection of the request; no other step of the loop or of the
\* handling of a None, JobResult, TransferAcknowledge or TransferFailed frame
\* sends a frame.
StatusRepliedOnceWithNone ==
    [][IF \E h \in Handlers : handled(h, OperationStatus)
       THEN \A h \in Handlers : handled(h, OperationStatus) =>
               /\ Len(sent') = Len(sent) + 1
               /\ SubSeq(sent', 1, Len(sent)) = sent
               /\ lastSent.conn = handlers[h].conn
               /\ lastSent.msg.Operation = OperationNone
       ELSE sent' = sent]_vars

StatusAndReplyHandled ==
    /\ dequeued = 2 /\ Len(sent) = 1
    /\ \A h \in 1..2 : handlers[h] = DoneHandler

\* ------------------------------------------------- readers and frame sizes
\* the maximum frame size the Config documents as its default: 1.024 MB
DocumentedMaxMessageSize == 1024000

DeclaredLengths ==
    {-MaxInt - 1, -1, 0, MaxMessageSize, MaxMessageSize + 1, DocumentedMaxMessageSize, MaxInt}

StatusCarrier == Message(OperationNone, <<>>, "T", "", "w", StatusIDLE)

\* what can be on the wire: a header that is not a number; or a header that
\* declares a length, followed by no payload byte at all, or by as many bytes
\* as it declares, which decode to a status carrier or to nothing
Wires ==
    {Wire(h, 0, NoMsg) : h \in {<<"1", "x">>, <<>>, Itoa(MaxInt) \o <<"0">>}}
    \cup {Wire(Itoa(n), 0, NoMsg) : n \in DeclaredLengths}
    \cup {Wire(Itoa(n), n, m) : n \in {l \in DeclaredLengths : l > 0}, m \in {NoMsg, StatusCarrier}}

complete(w) == Atoi(w.header).err = Nil /\ w.avail >= Atoi(w.header).value /\ w.msg # NoMsg

InitReader == InitWith(NewConfig("T", TRUE))

NextReader ==
    \/ \E c \in IPs, w \in Wires : handle(c, w)
    \/ \E h \in Handlers : noCallback(h)
    \/ \E h \in Handlers : handleUpdateNode(h)
    \/ \E h \in Handlers : handleCheckAwaited(h)

SpecReader == InitReader /\ [][NextReader]_vars

\* the iteration that reader c has just made
iterated(c) == rd'[c] # rd[c]

\* C16: the reader accepts a complete, well-formed frame whose header declares
\* exactly MaxMessageSize bytes (it reads them and the loop receives the
\* request), and refuses a header that declares MaxMessageSize+1, more, or a
\* negative length: it reads no payload byte and no request is enqueued.
ReaderAcceptsUpToMaxMessageSize ==
    [][\A c \in IPs : iterated(c) =>
          LET w == rd'[c].wire
              n == Atoi(w.header)
          IN  n.err = Nil =>
                /\ (n.value = Config.MaxMessageSize /\ complete(w)) =>
                       /\ rd'[c].outcome = "enqueued" /\ rd'[c].read = n.value
                       /\ dequeued' = dequeued + 1
                       /\ handlers'[dequeued'].msg = [w.msg EXCEPT !.Addr = c]
                /\ (n.value > Config.MaxMessageSize \/ n.value < 0) =>
                       /\ rd'[c].outcome = "too large" /\ rd'[c].read = 0
                       /\ UNCHANGED <<dequeued, handlers, nodes>>]_vars

ReaderAcceptedAndRefusedAtTheLimit ==
    /\ rd["ip1"].outcome = "enqueued" /\ Atoi(rd["ip1"].wire.header).value = MaxMessageSize
    /\ rd["ip2"].outcome = "too large"
    /\ Atoi(rd["ip2"].wire.header).value = MaxMessageSize + 1
    /\ dequeued = 1

\* C17: under the default configuration a complete, well-formed frame whose
\* header declares 1.024 MB or less is accepted by the reader.
ReaderAcceptsDocumentedDefault ==
    [][\A c \in IPs : iterated(c) =>
          LET w == rd'[c].wire
              n == Atoi(w.header)
          IN  (n.err = Nil /\ n.value \in 0..DocumentedMaxMessageSize /\ complete(w)) =>
                  rd'[c].outcome = "enqueued"]_vars

\* ------------------------------------------------- a server without a token
\* frames of peers that carry no token and of peers that carry one
AnyTokenFrames ==
    {Message(op, <<>>, tok, ip, "n", StatusIDLE) :
        op \in {OperationStatus, OperationNone}, tok \in {"", "T"}, ip \in IPs}

InitNoToken == InitWith(NewConfig("", TRUE))

NextNoToken ==
    \/ \E m \in AnyTokenFrames : Start(Request(m))
    \/ \E h \in Handlers : statusCallback(h)
    \/ \E h \in Handlers : noCallback(h)
    \/ \E h \in Handlers : handleUpdateNode(h)
    \/ \E h \in Handlers : handleCheckAwaited(h)

SpecNoToken == InitNoToken /\ [][NextNoToken]_vars

\* C18: a server whose token is empty accepts and dispatches every request
\* it dequeues, whatever token the frame carries: the sender is merged into
\* the registry and a handler is spawned for the frame.
EmptyTokenAcceptsEveryFrame ==
    [][(Config.Token = "" /\ dequeued' = dequeued + 1) =>
          /\ handlers'[dequeued'].pc = "callback"
          /\ handlers'[dequeued'].msg.Token = lastToken'
          /\ \E i \in 1..Len(nodes') : nodes'[i].Addr = handlers'[dequeued'].msg.Addr]_vars

\* ----------------------------------------------------------------- broadcast
BroadcastMessages == {Outbound(OperationStatus, <<>>), Outbound(OperationNone, <<"data">>)}

InitBroadcast == InitWith(NewConfig("T", TRUE))

NextBroadcast ==
    \/ \E m \in BroadcastMessages, await \in BOOLEAN, own \in Octets :
          broadcastCallback(m, await, own)
    \/ \E x \in Octets : broadcastDial(x)
    \/ \E x \in Octets : broadcastSend(x)
    \/ broadcastReturn

SpecBroadcast == InitBroadcast /\ [][NextBroadcast]_vars

framesTo(x) == {i \in 1..Len(sent) : sent[i].conn = OctetAddr[x]}

\* C19: no address is dialled twice and the own address never; every frame
\* sent carries the given message; and when a broadcast with await has
\* returned, every address other than the own one has been dialled exactly
\* once and every dial and send attempt has finished, and it returned nil
\* whatever the dials and sends did (an error only if the local address
\* could not be found, before any goroutine was spawned).
BroadcastOncePerAddress ==
    /\ \A x \in Octets :
          /\ bc.dials[x] <= 1
          /\ Cardinality(framesTo(x)) <= bc.dials[x]
          /\ x = bc.own => bc.dials[x] = 0
          /\ \A i \in framesTo(x) : sent[i].msg = stamp(bc.msg)
    /\ (bc.pc = "done" /\ bc.await) =>
          IF bc.err = Nil
          THEN /\ \A x \in Octets \ {bc.own} : bc.dials[x] = 1 /\ bc.routine[x] = "finished"
               /\ Cardinality({x \in Octets : bc.dials[x] = 1}) = MaxOctet - 1
          ELSE \A x \in Octets : bc.routine[x] = "none"

BroadcastReturnedAfterFailedDials ==
    /\ bc.pc = "done" /\ bc.await /\ bc.err = Nil
    /\ \E x, y \in Octets : x # y /\ framesTo(x) = {} /\ bc.dials[x] = 1 /\ framesTo(y) # {}

\* ---------------------------------------------------------------------- Scan
ScanReplies == {Message(OperationNone, <<>>, "T", ip, "w", StatusIDLE) : ip \in IPs}

InitScan == InitWith(NewConfig("T", TRUE))

NextScan ==
    \/ Scan(1)
    \/ \E x \in Octets : broadcastDial(x)
    \/ \E x \in Octets : broadcastSend(x)
    \/ scanSleep
    \/ scanReturn
    \/ \E m \in ScanReplies : Start(Request(m))
    \/ \E h \in Handlers : noCallback(h)
    \/ \E h \in Handlers : handleUpdateNode(h)
    \/ \E h \in Handlers : handleCheckAwaited(h)

SpecScan == InitScan /\ [][NextScan]_vars

\* C20: when Scan returns after its window it returns no error and the
\* registry as it is then: every peer merged so far (and not cleared since)
\* is in the result, and the result is empty when no peer has replied.
ScanReturnsRegistry ==
    [][(sc.pc = "sleeping" /\ sc'.pc = "done") =>
          /\ sc'.err = Nil
          /\ sc'.result = nodes
          /\ \A ip \in IPs : merged[ip] # NoNode => isOnline(sc'.result, ip)
          /\ dequeued = 0 => sc'.result = <<>>]_vars

ScanReturnedTwoPeers ==
    sc.pc = "done" /\ sc.err = Nil /\ Len(sc.result) = 2

\* ------------------------------------------------------------- load balancing
\* a worker replies to a JobExecute frame it was sent, once, with a Result
\* for the task of that frame
executeRequested(m) ==
    \E t \in Threads :
        /\ th[t].pc \in {"task_reg", "task_wait"} /\ th[t].ip = m.Addr
        /\ th[t].uuid = decodeResult(m.Data).res.UUID
        /\ deliveries[t] = 0
        /\ \A h \in Handlers : handlers[h].msg # m

BalancedResultFrames ==
    {Message(OperationJobResult, encodeResult([UUID |-> FormatUint(n), Error |-> ""]), "T", ip,
             "w", StatusIDLE) : n \in 1..Len(TargetList), ip \in IPs}

\* as many threads call LoadBalancer.Execute as there are nodes to balance
\* over, each after the threads before it
calledInTurn(t) ==
    /\ t <= Len(TargetList)
    /\ IF t = 1 THEN TRUE ELSE lb.call[t - 1].pc # "idle"

InitLoadBalancer == InitWith(NewConfig("T", TRUE))

NextLoadBalancer ==
    \/ \E k \in 0..Len(TargetList) : NewLoadBalancer(SubSeq(TargetList, 1, k))
    \/ \E t \in Threads : calledInTurn(t) /\ LoadBalancerPick(t)
    \/ \E t \in Threads : lb.call[t].pc = "executing" /\ Execute(t, using(t), TRUE)
    \/ \E t \in Threads : awaitTaskRegister(t)
    \/ \E t \in Threads : awaitTaskReceive(t)
    \/ \E t \in Threads : awaitTaskTimeout(t)
    \/ \E t \in Threads : LoadBalancerExecuted(t)
    \/ \E t \in Threads : LoadBalancerBest(t)
    \/ \E t \in Threads : LoadBalancerReturn(t)
    \/ \E m \in BalancedResultFrames : executeRequested(m) /\ Start(Request(m))
    \/ \E h \in Handlers : jobResultCallback(h)
    \/ \E h \in Handlers : handleUpdateNode(h)
    \/ \E h \in Handlers : handleCheckAwaited(h)

SpecLoadBalancer == InitLoadBalancer /\ [][NextLoadBalancer]_vars

\* the least load over all the records
lowestLoad(records) ==
    CHOOSE l \in {records[i].load : i \in 1..Len(records)} :
        \A i \in 1..Len(records) : l <= records[i].load

\* C21: the record that pick returns, whose load Execute increments, has the
\* minimum load over all the records at the time of the pick.
PickedAmongLowestLoad ==
    [][\A t \in Threads :
          (lb.call[t].pc = "idle" /\ lb'.call[t].pc = "executing") =>
              lb.records[lb'.call[t].use].load = lowestLoad(lb.records)]_vars

inFlight(i) ==
    {t \in Threads : lb.call[t].use = i /\ lb.call[t].pc \in {"executing", "timed", "returning"}}

\* C22: the load of every record is the number of LoadBalancer.Execute calls
\* in flight on it (picked and not yet returned), so it is never negative and
\* is 0 when no call is in flight, however the calls ended.
LoadCountsCallsInFlight ==
    \A i \in 1..Len(lb.records) :
        /\ lb.records[i].load = Cardinality(inFlight(i))
        /\ lb.records[i].load >= 0

LoadBackToZeroAfterEveryEnding ==
    /\ \A i \in 1..Len(lb.records) : lb.records[i].load = 0
    /\ \E t1, t2 \in Threads :
          /\ lb.call[t1].pc = "done" /\ th[t1].err = ErrTimeout
          /\ lb.call[t2].pc = "done" /\ th[t2].err = Nil
    /\ \E i \in 1..Len(lb.records) : lb.records[i].time # SecondMilliseconds

\* ------------------------------------------------- connections and shutdown
\* what the peers write: complete frames that differ in their payload, and
\* a frame above the size limit
carrier(d) == Message(OperationNone, <<d>>, "T", "", "w", StatusIDLE)

PeerWires ==
    {Wire(Itoa(1), 1, carrier(d)) : d \in {"a", "b"}}
    \cup {Wire(Itoa(MaxMessageSize + 1), 0, NoMsg)}

InitConnections == InitWith(NewConfig("T", TRUE))

NextConnections ==
    \/ \E c \in IPs, w \in PeerWires : peerWrite(c, w)
    \/ \E c \in IPs : handleSelect(c)
    \/ \E c \in IPs : handleRead(c)
    \/ \E c \in IPs : handleSend(c)
    \/ \E h \in Handlers : noCallback(h)
    \/ Stop
    \/ StartTerminated

SpecConnections == InitConnections /\ [][NextConnections]_vars

\* goroutines that can run do run, and a select whose closed channel is
\* always ready takes it in the end; the peers owe nothing
SpecStop ==
    SpecConnections
        /\ WF_vars(StartTerminated)
        /\ \A c \in IPs : WF_vars(handleSelect(c)) /\ WF_vars(handleRead(c))
                            /\ WF_vars(handleSend(c))

\* C23: after Stop the loop of Start returns, and every connection reader
\* sees the closed termination signal, closes its socket and exits.
StopEndsLoopAndReaders ==
    srv.terminated ~> (srv.loop = "returned" /\ \A c \in IPs : rd[c].state = "closed")

\* the requests the loop received from connection c, in the order received
fromConn(c) == SelectSeq(served, LAMBDA r : r.Conn = c)

\* of the frames that have arrived on connection c, those that reader c has
\* read and accepted, in arrival order
accepted(c) ==
    SelectSeq(SubSeq(inbox[c].frames, 1, inbox[c].next - 1),
              LAMBDA w : readFrame(w, Config.MaxMessageSize).state = "sending")

\* C30: the requests the loop dequeues from one connection are the frames
\* accepted on that connection, in their arrival order, whatever the readers
\* of the other connections do; at most the last one is still to be received.
RequestsInArrivalOrder ==
    \A c \in IPs :
        /\ Len(accepted(c)) - Len(fromConn(c)) = (IF rd[c].state = "sending" THEN 1 ELSE 0)
        /\ \A i \in 1..Len(fromConn(c)) :
              fromConn(c)[i] = Request([accepted(c)[i].msg EXCEPT !.Addr = c])

TwoFramesOfOneConnectionServed ==
    /\ Len(fromConn("ip1")) = 2
    /\ fromConn("ip1")[1].Msg.Data # fromConn("ip1")[2].Msg.Data
    /\ rd["ip2"].state = "sending"

\* ------------------------------------------------------- panics while serving
\* frames of an authorised peer, among them one whose Operation is none of
\* the constants, served with Config.Debug set
DebugFrames ==
    {Message(op, <<>>, "T", ip, "n", StatusIDLE) :
        op \in {OperationStatus, OperationNone, OperationOutOfRange}, ip \in IPs}

InitPanic == InitWith([NewConfig("T", TRUE) EXCEPT !.Debug = TRUE])

\* a panic that no deferred function recovers ends the program and with it
\* every goroutine
alive == srv.loop # "panicked"

NextPanic ==
    \/ \E m \in DebugFrames : Start(Request(m))
    \/ \E h \in Handlers : alive /\ statusCallback(h)
    \/ \E h \in Handlers : alive /\ noCallback(h)
    \/ \E h \in Handlers : alive /\ handleUpdateNode(h)
    \/ \E h \in Handlers : alive /\ handleCheckAwaited(h)

SpecPanic == InitPanic /\ [][NextPanic]_vars

\* C24: a panic raised while one inbound message is handled is recovered,
\* and the loop of Start goes on to dequeue and dispatch later requests.
PanicLeavesLoopRunning ==
    srv.panics > 0 => srv.loop = "running"

\* --------------------------------------------------- walks of the awaitable list
\* the step in which handler h walks the awaitable list with its message
walked(h) ==
    \/ /\ handlers[h].pc = "callback" /\ handlers'[h].pc = "update"
       /\ handlers[h].msg.Operation \in {OperationJobResult, OperationTransferAcknowledge,
                                         OperationTransferFailed}
    \/ handlers[h].pc = "check" /\ handlers'[h].pc = "done"

\* the positions of the list whose predicate is false for msg
kept(msg) == {i \in 1..Len(awaited) : ~checkFunc(awaited[i], msg)}

\* the k-th of those positions
keptAt(msg, k) == CHOOSE i \in kept(msg) : Cardinality({j \in kept(msg) : j <= i}) = k

\* C25: a walk of the awaitable list with message m sends m to every
\* awaitable whose predicate holds for m and to no other, removes exactly
\* those, and leaves the others in the list in their order of insertion.
WalkDeliversAndRemovesMatches ==
    [][\A h \in Handlers : walked(h) =>
          LET m == handlers[h].msg IN
          /\ Len(awaited') = Cardinality(kept(m))
          /\ \A k \in 1..Len(awaited') : awaited'[k] = awaited[keptAt(m, k)]
          /\ \A i \in 1..Len(awaited) :
                notify'[awaited[i].notify] =
                    IF i \in kept(m) THEN notify[awaited[i].notify]
                    ELSE Append(notify[awaited[i].notify], m)
          /\ \A t \in Threads : t \notin inList(awaited) => notify'[t] = notify[t]]_vars

WalkDeliveredToOneOfTwo ==
    \E t1, t2 \in Threads :
        /\ t1 > t2
        /\ deliveries[t1] = 1 /\ removals[t1] = 1 /\ th[t1].pc = "task_wait"
        /\ inList(awaited) = {t2} /\ deliveries[t2] = 0

\* ------------------------------------------------ waits that end without a message
\* thread 1 waits for a task, the other threads for a transfer of ip1 or for
\* any frame of ip1, all with a timeout; the registry stays empty until a
\* frame arrives, so the disconnection watchdogs count up
ExpiryFrames ==
    {Message(OperationJobResult, encodeResult([UUID |-> "1", Error |-> ""]), "T", "ip2", "w",
             StatusIDLE),
     Message(OperationTransferAcknowledge, <<>>, "T", "ip1", "w", StatusIDLE)}

InitExpiry == InitWith(NewConfig("T", TRUE))

NextExpiry ==
    \/ \E m \in ExpiryFrames : Start(Request(m))
    \/ \E h \in Handlers : jobResultCallback(h)
    \/ \E h \in Handlers : transferStatusCallback(h)
    \/ \E h \in Handlers : handleUpdateNode(h)
    \/ \E h \in Handlers : handleCheckAwaited(h)
    \/ awaitTask(1, "1", TRUE)
    \/ \E t \in Threads \ {1} : inTurn(t) /\ awaitTransfer(t, "ip1", TRUE)
    \/ \E t \in Threads \ {1} : inTurn(t) /\ awaitAny(t, "ip1", TRUE)
    \/ \E t \in Threads : awaitTaskReceive(t)
    \/ \E t \in Threads : awaitTaskTimeout(t)
    \/ \E t \in Threads : awaitTransferReceive(t)
    \/ \E t \in Threads : awaitTransferTimeout(t)
    \/ \E t \in Threads : awaitTransferDisconnected(t)
    \/ \E t \in Threads : disconnectionWatchdogPoll(t)
    \/ \E t \in Threads : awaitAnyReceive(t)
    \/ \E t \in Threads : awaitAnyTimeout(t)

SpecExpiry == InitExpiry /\ [][NextExpiry]_vars

\* the step in which the wait of thread t ends with one of the given errors
expires(t, errs) ==
    /\ th[t].pc \in {"task_wait", "transfer_wait", "any_wait"}
    /\ th'[t].pc = "done" /\ th'[t].err \in errs

entryOf(t) == awaited[CHOOSE i \in 1..Len(awaited) : awaited[i].notify = t]

\* C26: a wait that ends with ErrTimeout or ErrNodeDisconnected leaves the
\* awaitable list as it is, and an entry leaves the list only in a walk of
\* the list with a message for which its predicate holds.
ExpiryLeavesAwaitableList ==
    [][\A t \in Threads :
          /\ expires(t, {ErrTimeout, ErrNodeDisconnected}) => awaited' = awaited
          /\ (t \in inList(awaited) /\ t \notin inList(awaited')) =>
                \E h \in Handlers : walked(h) /\ checkFunc(entryOf(t), handlers[h].msg)]_vars

ExpiredEntriesRemovedByLaterMessage ==
    /\ th[1].op = "awaitTask" /\ th[1].pc = "done" /\ th[1].err = ErrTimeout
    /\ removals[1] = 1 /\ Len(notify[1]) = 1
    /\ \E t \in Threads :
          /\ th[t].pc = "done" /\ th[t].err = ErrNodeDisconnected
          /\ t \in inList(awaited)

\* ------------------------------------------------- the disconnection watchdog
\* C27: the watchdog's signal is received only after maxDisconnections polls
\* in a row found the node absent, at most once, and the watchdog that has
\* signalled has exited: it polls and signals no more.
WatchdogSignalsOnceAfterAbsences ==
    [][\A t \in Threads :
          /\ wd'[t].signals <= 1
          /\ wd'[t].signals > wd[t].signals =>
                /\ wd[t].streak >= maxDisconnections
                /\ wd'[t].state = "exited"
          /\ wd[t].state = "signalling" => wd[t].streak >= maxDisconnections
          /\ wd[t].state = "exited" => wd'[t] = wd[t]]_vars

WatchdogSignalledAfterReset ==
    \E t \in Threads :
        /\ wd[t].signals = 1 /\ wd[t].state = "exited"
        /\ dequeued > 0 /\ cycles > 0
        /\ th[t].err = ErrNodeDisconnected

\* --------------------------------------------------- the connection watchdog
\* Execute calls with the connection watchdog enabled, and their results
InitWatchdog == InitWith(NewConfig("T", FALSE))

NextWatchdog ==
    \/ \E t \in Threads : inTurn(t) /\ Execute(t, "ip1", TRUE)
    \/ \E t \in Threads : awaitTaskRegister(t)
    \/ \E t \in Threads : awaitTaskReceive(t)
    \/ \E t \in Threads : awaitTaskTimeout(t)
    \/ \E t \in Threads : connectionWatchdogSelect(t)
    \/ \E t \in Threads : cycles < MaxCycles /\ connectionWatchdogCycle(t)
    \/ \E m \in WorkerResultFrames : Start(Request(m))
    \/ \E h \in Handlers : jobResultCallback(h)
    \/ \E h \in Handlers : handleUpdateNode(h)
    \/ \E h \in Handlers : handleCheckAwaited(h)

SpecWatchdog == InitWatchdog /\ [][NextWatchdog]_vars

\* the step in which the watchdog of caller c runs the body of its cycle
cycled(c) == cw[c].state = "sleeping" /\ cw'[c].state = "select"

\* C28: a cycle of the connection watchdog clears the registry and then
\* broadcasts a Status probe, and no cycle runs once the termination signal
\* of the watchdog has been sent.
WatchdogIdleAfterTermination ==
    [][\A c \in Callers : cycled(c) =>
          /\ nodes' = <<>>
          /\ Len(sent') = Len(sent) + 1
          /\ lastSent.conn = "broadcast" /\ lastSent.msg.Operation = OperationStatus
          /\ cw[c].terminate = 0]_vars

\* ------------------------------------------------- the registry and its lock
\* status carriers of two peers are merged step by step while the connection
\* watchdog of an Execute call runs its cycles
RegistryFrames == {Message(OperationNone, <<>>, "T", ip, "w", StatusIDLE) : ip \in IPs}

InitRegistry == InitWith(NewConfig("T", FALSE))

NextRegistry ==
    \/ \E m \in RegistryFrames : Start(Request(m))
    \/ \E h \in Handlers : alive /\ noCallback(h)
    \/ \E h \in Handlers : alive /\ updateNodeLock(h)
    \/ \E h \in Handlers : alive /\ updateNodeStep(h)
    \/ \E h \in Handlers : alive /\ handleCheckAwaited(h)
    \/ alive /\ Execute(1, "ip1", TRUE)
    \/ alive /\ awaitTaskRegister(1)
    \/ alive /\ connectionWatchdogSelect(1)
    \/ alive /\ cycles < MaxCycles /\ connectionWatchdogCycle(1)

SpecRegistry == InitRegistry /\ [][NextRegistry]_vars

\* C29: the registry is written only by the holder of its write lock: a
\* clear by the connection watchdog does not fall between the steps of a
\* merge, and no merge trips over a registry that changed under it.
RegistryWrittenUnderLock ==
    [][/\ (\E c \in Callers : cycled(c)) => reg.lock = 0
       /\ srv'.panics = srv.panics]_vars

\* ------------------------------------------------- frames the reader refuses
\* what is wrong with the frame w for a reader whose limit is max
faulty(w, max) ==
    \/ Atoi(w.header).err # Nil
    \/ tooLarge(Atoi(w.header).value, max)
    \/ w.avail < Atoi(w.header).value
    \/ w.msg = NoMsg

\* C31: a frame with a malformed header, a short payload or a payload that
\* does not decode, and a frame above the size limit, enqueue no request and
\* end with the reader stopped and the connection closed; the loop and the
\* readers of the other connections are left as they are.
FaultyFrameClosesConnection ==
    [][\A c \in IPs : (iterated(c) /\ faulty(rd'[c].wire, Config.MaxMessageSize)) =>
          /\ rd'[c].state = "closed"
          /\ UNCHANGED <<dequeued, handlers, nodes, srv>>
          /\ \A c2 \in IPs \ {c} : rd'[c2] = rd[c2]]_vars

\* ------------------------------------------------------- frames on a stream
\* what the peers send: status carriers whose payload is empty, is a newline,
\* or holds a digit and a newline (the header of that frame has two digits),
\* and whose body names the address of either peer
StreamMessages ==
    {Message(OperationNone, <<>>, "T", "ip1", "w", StatusIDLE),
     Message(OperationNone, <<"\n">>, "T", "ip2", "w", StatusIDLE),
     Message(OperationNone, <<"7", "\n", "x">>, "T", "ip2", "w", StatusIDLE)}

InitStream == InitWith(NewConfig("T", TRUE))

NextStream ==
    \/ \E c \in IPs, m \in StreamMessages : peerSend(c, m)
    \/ \E c \in IPs : handleSelect(c)
    \/ \E c \in IPs : handleBytes(c)
    \/ \E c \in IPs : handleSend(c)
    \/ \E h \in Handlers : noCallback(h)
    \/ \E h \in Handlers : handleUpdateNode(h)
    \/ \E h \in Handlers : handleCheckAwaited(h)
    \/ awaitAny(1, "ip2", TRUE)
    \/ awaitAnyReceive(1)
    \/ awaitAnyTimeout(1)

SpecStream == InitStream /\ [][NextStream]_vars

\* the messages reader c has made requests of: those the loop has received
\* and the one the reader is sending
requested(c) ==
    [i \in 1..Len(fromConn(c)) |-> fromConn(c)[i].Msg]
        \o (IF rd[c].state = "sending" THEN <<received(rd[c].wire.msg, c).Msg>> ELSE <<>>)

\* the bytes of the first n frames of msgs
RECURSIVE framesLen(_, _)
framesLen(msgs, n) == IF n = 0 THEN 0 ELSE framesLen(msgs, n - 1) + Len(frameBytes(msgs[n]))

\* C32: each well-formed frame the sender writes becomes exactly one request,
\* whose message is the sent message but for Addr, and the reader takes from
\* the stream exactly the bytes of the frames it has turned into requests.
FramesBecomeRequests ==
    \A c \in IPs :
        /\ rd[c].state \in {"reading", "readline", "sending"}
        /\ Len(requested(c)) <= Len(stream[c].msgs)
        /\ \A i \in 1..Len(requested(c)) :
              /\ requested(c)[i].Operation = stream[c].msgs[i].Operation
              /\ requested(c)[i].Data = stream[c].msgs[i].Data
              /\ requested(c)[i].Token = stream[c].msgs[i].Token
              /\ requested(c)[i].Name = stream[c].msgs[i].Name
              /\ requested(c)[i].Status = stream[c].msgs[i].Status
        /\ stream[c].pos - 1 = framesLen(stream[c].msgs, Len(requested(c)))

TwoFramesWithNewlinesServed ==
    /\ Len(fromConn("ip1")) = 2
    /\ stream["ip1"].msgs[1].Data = <<"7", "\n", "x">>
    /\ stream["ip1"].msgs[2].Data = <<"\n">>
    /\ fromConn("ip1")[2].Msg.Data = <<"\n">>

\* C33: the Addr of every request handed to the loop is the remote address
\* of the connection it arrived on, whatever the body said; so are the keys
\* of the registry, and a wait for any frame of an address is resolved only
\* by a frame that arrived on the connection of that address.
AddrIsTransportAddress ==
    /\ \A i \in 1..Len(served) : served[i].Msg.Addr = served[i].Conn
    /\ \A c \in IPs : isOnline(nodes, c) => fromConn(c) # <<>>
    /\ \A t \in Threads :
          (th[t].op = "awaitAny" /\ th[t].pc = "done" /\ th[t].msg # NoMsg) =>
              \E i \in 1..Len(served) :
                  served[i].Msg = th[t].msg /\ served[i].Conn = th[t].ip

SpoofedAddrOverwritten ==
    /\ Len(fromConn("ip1")) = 1 /\ Len(fromConn("ip2")) = 0
    /\ stream["ip1"].msgs[1].Addr = "ip2"
    /\ isOnline(nodes, "ip1") /\ ~isOnline(nodes, "ip2")
    /\ handlers[1] = DoneHandler
    /\ th[1].pc = "any_wait"

\* ------------------------------------------------------ the value Scan returns
\* Nodes is a slice: "return s.nodes" hands the caller the registry's backing
\* array, and updateNode's s.nodes[i] = node2 writes into that array.  As long
\* as nothing was appended since Scan returned, the registry still uses it (an
\* append to the full slice moves the registry to a new array, after which the
\* model takes the caller's value to be as returned).
sharesArray == sc.pc = "done" /\ sc.err = Nil /\ Len(nodes) = Len(sc.result)

\* the contents of the value that the caller of Scan holds
held == IF sharesArray THEN nodes ELSE sc.result

\* C34: the value Scan has returned is a snapshot: merges into the registry
\* after the return do not change the contents of the value the caller holds.
ScanResultIsSnapshot ==
    (sc.pc = "done" /\ sc.err = Nil) => held = sc.result

\* ------------------------------------------------ results and their Execute
\* Execute calls, and workers that answer the JobExecute frame of a call with
\* the Result of its task
InitResult == InitWith(NewConfig("T", TRUE))

NextResult ==
    \/ \E t \in Threads : inTurn(t) /\ Execute(t, "ip1", TRUE)
    \/ \E t \in Threads : awaitTaskRegister(t)
    \/ \E t \in Threads : awaitTaskReceive(t)
    \/ \E t \in Threads : awaitTaskTimeout(t)
    \/ \E m \in WorkerResultFrames : executeRequested(m) /\ Start(Request(m))
    \/ \E h \in Handlers : jobResultCallback(h)
    \/ \E h \in Handlers : handleUpdateNode(h)
    \/ \E h \in Handlers : handleCheckAwaited(h)

SpecResult == InitResult /\ [][NextResult]_vars

\* handler h ends the handling of the JobResult for the task of call t
resultHandled(h, t) ==
    /\ handlers[h].pc = "check" /\ handlers'[h].pc = "done"
    /\ handlers[h].msg.Operation = OperationJobResult
    /\ decodeResult(handlers[h].msg.Data).err = Nil
    /\ decodeResult(handlers[h].msg.Data).res.UUID = th[t].uuid

\* C35: when the handling of the JobResult for the UUID of an Execute call
\* that has sent its frame and has not returned ends, the result has been
\* delivered to that call, also when the call had not yet registered its
\* awaitable.
ResultReachesExecute ==
    [][\A h \in Handlers, t \in Threads :
          (/\ th[t].op = "Execute" /\ th[t].pc \in {"task_reg", "task_wait"}
           /\ resultHandled(h, t))
              => deliveries'[t] >= 1]_vars

\* ------------------------------------------------- sends under awaitedLock
\* handler h is about to walk the awaitable list with its message
walking(h) ==
    \/ handlers[h].pc = "check"
    \/ atCallback(h, {OperationJobResult, OperationTransferAcknowledge, OperationTransferFailed})

\* C36: checkAwaited never blocks under awaitedLock: whenever a handler walks
\* the list, the delivery channel of every awaitable its message matches has
\* room, also when the waiter has timed out and no longer receives.
SendNeverBlocks ==
    \A h \in Handlers : walking(h) =>
        \A t \in matched(awaited, handlers[h].msg) : ~sendBlocks(notify[t])

DeliveredToAbandonedChannel ==
    \E t \in Threads :
        /\ th[t].pc = "done" /\ th[t].err = ErrTimeout
        /\ deliveries[t] = 1 /\ Len(notify[t]) = NotifyCapacity
        /\ \E h \in Handlers : walking(h) /\ handlers[h].msg.Data = encodeResult([UUID |-> th[t].uuid, Error |-> ""])

\* ------------------------------------------------- probes and their answers
\* ip1 is in the registry when awaitTransfer is called for it and answers
\* every Status probe of the connection watchdog, and each answer is merged
\* before the disconnection watchdog polls for the second time after the probe
ProbeReply == Message(OperationNone, <<>>, "T", "ip1", "w", StatusIDLE)

\* the frames of ip1 merged so far: its registration and its answers
answers == dequeued - 1

\* the probes broadcast before the last poll of watchdog t have been answered
answered(t) == answers >= wd[t].seen

InitProbe == InitWith(NewConfig("T", FALSE))

NextProbe ==
    \/ answers < cycles /\ Start(Request(ProbeReply))
    \/ \E h \in Handlers : noCallback(h)
    \/ \E h \in Handlers : handleUpdateNode(h)
    \/ \E h \in Handlers : handleCheckAwaited(h)
    \/ Execute(1, "ip2", TRUE)
    \/ connectionWatchdogSelect(1)
    \/ cycles <= MaxCycles /\ connectionWatchdogCycle(1)
    \/ \E t \in Threads \ {1} : inTurn(t) /\ isOnline(nodes, "ip1") /\ awaitTransfer(t, "ip1", FALSE)
    \/ \E t \in Threads : answered(t) /\ disconnectionWatchdogPoll(t)
    \/ \E t \in Threads : awaitTransferDisconnected(t)

SpecProbe == InitProbe /\ [][NextProbe]_vars

\* C37: while the connection watchdog runs, awaitTransfer for a peer that
\* answers every Status probe never returns ErrNodeDisconnected.
ProbedPeerNeverDisconnected ==
    \A t \in Threads : th[t].op = "awaitTransfer" => th[t].err # ErrNodeDisconnected

\* ------------------------------------------------------- the worker's status
\* the handlers whose job subprocess is running
running == {h \in Handlers : handlers[h].pc = "running"}

\* C38: on a worker the Status is Working while the job subprocess of at
\* least one JobExecute handler runs, and Idle when none does.
StatusWorkingWhileJobRuns ==
    Status = (IF running # {} THEN StatusWorking ELSE StatusIDLE)

\* ------------------------------------------------ the merges of one sender
\* frames of two peers that differ in name and status, all with the
\* configured token
MergeFrames ==
    {Message(OperationNone, <<>>, "T", ip, "a", StatusIDLE) : ip \in IPs}
    \cup {Message(OperationStatus, <<>>, "T", ip, "b", StatusWorking) : ip \in IPs}

InitMerge == InitWith(NewConfig("T", TRUE))

NextMerge ==
    \/ \E m \in MergeFrames :
          /\ serve(Request(m))
          /\ served' = Append(served, Request(m))
          /\ UNCHANGED calls
    \/ \E h \in Handlers : statusCallback(h)
    \/ \E h \in Handlers : noCallback(h)
    \/ \E h \in Handlers : handleUpdateNode(h)
    \/ \E h \in Handlers : handleCheckAwaited(h)

SpecMerge == InitMerge /\ [][NextMerge]_vars

\* the requests the loop has received from ip, in the order of their receipt
framesFrom(ip) == SelectSeq(served, LAMBDA r : r.Msg.Addr = ip)

allHandled == \A h \in Handlers : handlers[h].pc \in {"none", "done"}

\* C39: once the handlers have finished, the registry entry of an IP carries
\* the name and status of the frame received last from that IP.
EntryIsOfLastFrame ==
    \A ip \in IPs :
        (allHandled /\ framesFrom(ip) # <<>>) =>
            LET last == framesFrom(ip)[Len(framesFrom(ip))].Msg IN
            /\ find(nodes, ip).Name = last.Name
            /\ find(nodes, ip).Status = last.Status

\* ------------------------------------------------------- the best time
\* C40: the best time of a LoadBalancer is strictly positive, so that the
\* division time/best of softmax never divides by zero: no call panics in
\* pick over a balancer that has records.
BestIsPositive ==
    lb.pc = "ready" =>
        /\ lb.best > 0
        /\ \A t \in Threads : lb.call[t].pc = "panicked" => lb.records = <<>>

====
